---- MODULE Spec2Model ----
(***************************************************************************)
(* Model of the comment dashboard backend (src/app.py): the per-source     *)
(* refresh state machine, the scrape-analyze-merge-persist pipeline and    *)
(* the pure helpers they use.                                              *)
(*                                                                         *)
(* Strings are sequences of one-character strings, so that whitespace      *)
(* normalisation and lower-casing are computed, not assumed.               *)
(***************************************************************************)
EXTENDS Integers, Sequences, FiniteSets, TLC

VARIABLES
    world,          \* what the outside answers in this run, and how far the run goes
    boot,           \* what is left of the start-up sequence of __main__
    site_states,    \* _site_states: source_id -> comments, last_updated, in_progress, last_error
    pub,            \* history: what the last seeding or successful refresh of a source set
    threads,        \* background threads started by trigger_refresh_if_needed
    files,          \* the four persisted tables of every source
    cache,          \* _analysis_cache
    now,            \* the wall clock, in seconds
    ret,            \* the last trigger call and what it returned
    snap,           \* the last state_payload handed to a client
    req,            \* the GET /api/live-comments request between its two critical sections
    mA, mB, mOut, mPhase, mApplied,  \* merge_with_existing applied to arbitrary lists
    fIn, fOut,      \* a helper applied on its own: what it is given and what it returns
    locks, lk       \* who holds _state_lock and _analysis_cache_lock, and where every
                    \* thread stands between two lock operations or slow calls

vars == <<world, boot, site_states, pub, threads, files, cache, now, ret, snap, req,
          mA, mB, mOut, mPhase, mApplied, fIn, fOut, locks, lk>>

appVars == <<world, boot, site_states, pub, threads, files, cache, now, ret, snap, req>>
\* what the application never touches
mergeVars == <<mA, mB, mOut, mPhase, mApplied, fIn, fOut, locks, lk>>

None == "None"

\* a local variable: the value is worked out once and goes by a name in the body
With(value, Body(_)) == Body(value)
With2(first, second, Body(_, _)) == Body(first, second)

----------------------------------------------------------------------------
(* Strings                                                                 *)

UpperChars == <<"A","B","C","D","E","F","G","H","I","J","K","L","M",
                "N","O","P","Q","R","S","T","U","V","W","X","Y","Z">>
LowerChars == <<"a","b","c","d","e","f","g","h","i","j","k","l","m",
                "n","o","p","q","r","s","t","u","v","w","x","y","z">>

\* \s of the re module, for the characters the model uses
IsSpace(c) == c \in {" ", "\t", "\n", "\r"}

\* str.lower(), one character
lower_char(c) ==
    IF \E i \in 1..Len(UpperChars) : UpperChars[i] = c
    THEN LowerChars[CHOOSE i \in 1..Len(UpperChars) : UpperChars[i] = c]
    ELSE c

\* str.lower()
lower(s) == [i \in 1..Len(s) |-> lower_char(s[i])]

RECURSIVE lstrip(_)
lstrip(s) == IF s # <<>> /\ IsSpace(Head(s)) THEN lstrip(Tail(s)) ELSE s

RECURSIVE rstrip(_)
rstrip(s) ==
    IF s # <<>> /\ IsSpace(s[Len(s)]) THEN rstrip(SubSeq(s, 1, Len(s) - 1)) ELSE s

\* str.strip()
strip(s) == rstrip(lstrip(s))

\* re.sub(r"\s+", " ", s): every maximal run of whitespace becomes one space.
\* The first character of a run becomes the space, the others of the run go.
collapse_whitespace(s) ==
    SelectSeq([i \in 1..Len(s) |->
                  IF ~IsSpace(s[i]) THEN s[i]
                  ELSE IF i > 1 /\ IsSpace(s[i - 1]) THEN "gone" ELSE " "],
              LAMBDA c : c # "gone")

normalize_whitespace(value) == strip(collapse_whitespace(value))

\* sha256 hex digest, taken to be collision free: the digest stands for its input
text_hash(value) == <<"sha256", value>>

make_comment_key(author, text) ==
    text_hash(lower(normalize_whitespace(author)) \o <<"|">>
              \o lower(normalize_whitespace(text)))

\* the key the merge and the paginator compute for a row
row_key(row) == make_comment_key(row.author, row.text)

----------------------------------------------------------------------------
(* merge_with_existing                                                     *)

\* a loop that never skips a row
RECURSIVE merge_loop_unseen(_, _, _)
merge_loop_unseen(rows, seen, merged) ==
    IF rows = <<>> THEN merged
    ELSE merge_loop_unseen(Tail(rows), seen, Append(merged, Head(rows)))

\* the for loop of merge_with_existing
RECURSIVE merge_loop(_, _, _)
merge_loop(rows, seen, merged) ==
    IF rows = <<>> THEN merged
    ELSE LET row == Head(rows)
             key == row_key(row)
         IN IF key \in seen
            THEN merge_loop(Tail(rows), seen, merged)
            ELSE merge_loop(Tail(rows), seen \cup {key}, Append(merged, row))

\* a merge that appends the persisted rows to the new ones as they are
merge_forgets_seen(new_rows, existing_rows) ==
    merge_loop_unseen(new_rows \o existing_rows, {}, <<>>)

\* a merge that lets the persisted row win over the freshly scraped one
merge_existing_first(new_rows, existing_rows) ==
    merge_loop(existing_rows \o new_rows, {}, <<>>)

merge_with_existing(new_rows, existing_rows) ==
    merge_loop(new_rows \o existing_rows, {}, <<>>)

----------------------------------------------------------------------------
(* Text normaliser                                                         *)

\* Characters above U+007F are written by their code point: "<C3>" is U+00C3.
\* Every other one-character string is an ASCII character.
HighChars == { <<"<82>", 130>>, <<"<83>", 131>>, <<"<A9>", 169>>, <<"<C2>", 194>>, <<"<C3>", 195>>,
               <<"<E2>", 226>>, <<"<E9>", 233>>, <<"<0915>", 2325>>,
               <<"<2764>", 10084>>, <<"<FE0F>", 65039>>, <<"<1F44D>", 128077>>,
               <<"<1F44E>", 128078>>, <<"<1F44F>", 128079>>, <<"<1F494>", 128148>>,
               <<"<1F525>", 128293>>, <<"<1F600>", 128512>>, <<"<1F604>", 128516>>,
               <<"<1F60A>", 128522>>, <<"<1F61E>", 128542>>, <<"<1F621>", 128545>>,
               <<"<1F622>", 128546>>, <<"<1F62D>", 128557>>, <<"<1F64F>", 128591>> }

IsHigh(c) == \E p \in HighChars : p[1] = c

\* ord(c) of a character above U+007F; ASCII characters are not told apart here
high_code(c) == IF IsHigh(c) THEN (CHOOSE p \in HighChars : p[1] = c)[2] ELSE 0

HasChar(code) == \E p \in HighChars : p[2] = code
char_of(code) == (CHOOSE p \in HighChars : p[2] = code)[1]

DecodeError == <<"UnicodeError">>

\* bytes.decode("utf-8") of str.encode("latin1"): ASCII bytes stand for themselves,
\* C2/C3 lead a two-byte sequence, every other high byte here is ill-formed.
\* A character above U+00FF cannot be encoded to latin1 at all.
RECURSIVE latin1_to_utf8(_)
latin1_to_utf8(s) ==
    IF s = <<>> THEN <<>>
    ELSE LET b == high_code(Head(s)) IN
         IF b = 0
         THEN LET rest == latin1_to_utf8(Tail(s)) IN
              IF rest = DecodeError THEN DecodeError ELSE <<Head(s)>> \o rest
         ELSE IF b \in {194, 195} /\ Len(s) >= 2
                 /\ high_code(s[2]) >= 128 /\ high_code(s[2]) <= 191
         THEN LET code == IF b = 194 THEN high_code(s[2]) ELSE high_code(s[2]) + 64
                  rest == latin1_to_utf8(Tail(Tail(s))) IN
              IF rest = DecodeError \/ ~HasChar(code) THEN DecodeError
              ELSE <<char_of(code)>> \o rest
         ELSE DecodeError

fix_mojibake(text) ==
    With(normalize_whitespace(text), LAMBDA cleaned :
    IF cleaned = <<>> THEN <<>>
    ELSE IF \E i \in 1..Len(cleaned) : cleaned[i] \in {"<C3>", "<C2>", "<E2>"}
         THEN With(latin1_to_utf8(cleaned), LAMBDA repaired :
              IF repaired = DecodeError THEN cleaned ELSE normalize_whitespace(repaired))
         ELSE cleaned)

IsDigit(c) == c \in {"0","1","2","3","4","5","6","7","8","9"}

\* The regex helpers work on positions: i is the next character to read, 0 is "no match".
match_lit(s, i, lit) ==
    IF i # 0 /\ i + Len(lit) - 1 <= Len(s) /\ lower(SubSeq(s, i, i + Len(lit) - 1)) = lit
    THEN i + Len(lit) ELSE 0

RECURSIVE skip_spaces(_, _)
skip_spaces(s, i) ==
    IF i # 0 /\ i <= Len(s) /\ IsSpace(s[i]) THEN skip_spaces(s, i + 1) ELSE i

need_spaces(s, i) ==
    IF i # 0 /\ i <= Len(s) /\ IsSpace(s[i]) THEN skip_spaces(s, i) ELSE 0

RECURSIVE skip_digits(_, _)
skip_digits(s, i) ==
    IF i # 0 /\ i <= Len(s) /\ IsDigit(s[i]) THEN skip_digits(s, i + 1) ELSE i

need_digits(s, i) ==
    IF i # 0 /\ i <= Len(s) /\ IsDigit(s[i]) THEN skip_digits(s, i) ELSE 0

\* \(\d+\)
match_count(s, i) == match_lit(s, need_digits(s, match_lit(s, i, <<"(">>)), <<")">>)

\* ^like\s*\(\d+\)\s*dislike\s*\(\d+\)
junk_like_dislike(s) ==
    match_count(s, skip_spaces(s,
        match_lit(s, skip_spaces(s,
            match_count(s, skip_spaces(s, match_lit(s, 1, <<"l","i","k","e">>)))),
            <<"d","i","s","l","i","k","e">>))) # 0

\* facebook\s+twitter, anywhere
junk_share_labels(s) ==
    \E i \in 1..Len(s) :
        match_lit(s, need_spaces(s, match_lit(s, i, <<"f","a","c","e","b","o","o","k">>)),
                  <<"t","w","i","t","t","e","r">>) # 0

\* ^report\s+spam
junk_report_spam(s) ==
    match_lit(s, need_spaces(s, match_lit(s, 1, <<"r","e","p","o","r","t">>)),
              <<"s","p","a","m">>) # 0

is_junk_or_boilerplate(text) ==
    With(normalize_whitespace(text), LAMBDA cleaned :
        \/ cleaned = <<>>
        \/ Len(cleaned) < 3
        \/ junk_like_dislike(cleaned)
        \/ junk_share_labels(cleaned)
        \/ junk_report_spam(cleaned))

PLACEHOLDER_AUTHORS == {
    <<>>, <<"u","n","k","n","o","w","n">>,
    <<"d","e","f","a","u","l","t"," ","i","c","o","n"," ","f","o","r"," ","u","s","e","r">>,
    <<"h","o","m","e">>, <<"u","s","e","r">>
}

is_placeholder_author(author) ==
    lower(normalize_whitespace(author)) \in PLACEHOLDER_AUTHORS

Unknown == <<"U","n","k","n","o","w","n">>

----------------------------------------------------------------------------
(* Language and sentiment classifier                                       *)

POSITIVE_WORDS == {
    <<"g","o","o","d">>, <<"g","r","e","a","t">>, <<"e","x","c","e","l","l","e","n","t">>,
    <<"a","w","e","s","o","m","e">>, <<"a","m","a","z","i","n","g">>,
    <<"h","e","l","p","f","u","l">>, <<"b","e","s","t">>, <<"l","o","v","e">>,
    <<"s","u","p","p","o","r","t">>, <<"t","h","a","n","k">>, <<"t","h","a","n","k","s">>,
    <<"s","e","m","m","a">>, <<"v","e","r","a">>, <<"l","e","v","e","l">>,
    <<"v","e","r","i","t","h","a","n","a","m">>, <<"s","u","p","e","r">>, <<"n","i","c","e">>,
    <<"i","m","p","r","o","v","e">>, <<"i","m","p","r","o","v","e","d">>,
    <<"u","s","e","f","u","l">>
}

NEGATIVE_WORDS == {
    <<"b","a","d">>, <<"w","o","r","s","t">>, <<"p","o","o","r">>, <<"w","a","s","t","e">>,
    <<"u","s","e","l","e","s","s">>, <<"i","s","s","u","e">>, <<"p","r","o","b","l","e","m">>,
    <<"b","u","g">>, <<"h","a","t","e">>, <<"s","l","o","w">>, <<"b","r","o","k","e","n">>,
    <<"m","o","k","k","a","i">>, <<"n","o","t">>, <<"s","p","a","m">>, <<"f","a","k","e">>,
    <<"d","i","f","f","i","c","u","l","t">>, <<"e","r","r","o","r">>,
    <<"d","i","s","l","i","k","e">>, <<"d","e","l","a","y">>
}

LANGUAGE_CODE_MAP == {
    <<<<"e","n">>, <<"E","n","g","l","i","s","h">>>>, <<<<"h","i">>, <<"H","i","n","d","i">>>>,
    <<<<"t","a">>, <<"T","a","m","i","l">>>>, <<<<"t","e">>, <<"T","e","l","u","g","u">>>>,
    <<<<"m","l">>, <<"M","a","l","a","y","a","l","a","m">>>>,
    <<<<"k","n">>, <<"K","a","n","n","a","d","a">>>>,
    <<<<"m","r">>, <<"M","a","r","a","t","h","i">>>>,
    <<<<"g","u">>, <<"G","u","j","a","r","a","t","i">>>>,
    <<<<"b","n">>, <<"B","e","n","g","a","l","i">>>>,
    <<<<"p","a">>, <<"P","u","n","j","a","b","i">>>>, <<<<"o","r">>, <<"O","d","i","a">>>>,
    <<<<"u","r">>, <<"U","r","d","u">>>>
}

\* each pattern is a range of code points and the language it stands for
SCRIPT_PATTERNS == <<
    <<2304, 2431, <<"H","i","n","d","i">>>>, <<2432, 2559, <<"B","e","n","g","a","l","i">>>>,
    <<2560, 2687, <<"P","u","n","j","a","b","i">>>>,
    <<2688, 2815, <<"G","u","j","a","r","a","t","i">>>>, <<2816, 2943, <<"O","d","i","a">>>>,
    <<2944, 3071, <<"T","a","m","i","l">>>>, <<3072, 3199, <<"T","e","l","u","g","u">>>>,
    <<3200, 3327, <<"K","a","n","n","a","d","a">>>>,
    <<3328, 3455, <<"M","a","l","a","y","a","l","a","m">>>>, <<1536, 1791, <<"U","r","d","u">>>>
>>

POSITIVE_EMOJI == <<
    <<"<1F600>">>, <<"<1F604>">>, <<"<1F60A>">>, <<"<1F44D>">>, <<"<2764>","<FE0F>">>,
    <<"<2764>">>, <<"<1F525>">>, <<"<1F44F>">>, <<"<1F64F>">>
>>

NEGATIVE_EMOJI == <<
    <<"<1F621>">>, <<"<1F61E>">>, <<"<1F44E>">>, <<"<1F494>">>, <<"<1F622>">>, <<"<1F62D>">>
>>

POSITIVE == <<"p","o","s","i","t","i","v","e">>
NEGATIVE == <<"n","e","g","a","t","i","v","e">>
NEUTRAL == <<"n","e","u","t","r","a","l">>
UNKNOWN == <<"u","n","k","n","o","w","n">>

\* scores are kept in units of 0.00001
DEFAULT_SENTIMENT_SCORE(sentiment) ==
    CASE sentiment = POSITIVE -> 62000
      [] sentiment = NEGATIVE -> 62000
      [] sentiment = NEUTRAL -> 50000
      [] OTHER -> 0

\* s[i:].startswith(x)
starts_at(s, i, x) ==
    i >= 1 /\ i + Len(x) - 1 <= Len(s) /\ SubSeq(s, i, i + Len(x) - 1) = x

\* x in s, for strings
contains(s, x) == \E i \in 1..(Len(s) + 1) : starts_at(s, i, x)

normalize_sentiment(raw) ==
    With(lower(normalize_whitespace(raw)), LAMBDA label :
    IF label \in {POSITIVE, NEGATIVE, NEUTRAL, UNKNOWN} THEN label
    ELSE IF label = <<"p","o","s">> THEN POSITIVE
    ELSE IF label = <<"n","e","g">> THEN NEGATIVE
    ELSE IF label = <<"n","e","u">> THEN NEUTRAL
    ELSE IF label = <<"l","a","b","e","l","_","0">> THEN NEGATIVE
    ELSE IF label = <<"l","a","b","e","l","_","1">> THEN NEUTRAL
    ELSE IF label = <<"l","a","b","e","l","_","2">> THEN POSITIVE
    ELSE IF contains(label, <<"p","o","s">>) THEN POSITIVE
    ELSE IF contains(label, <<"n","e","g">>) THEN NEGATIVE
    ELSE IF contains(label, <<"n","e","u">>) THEN NEUTRAL
    ELSE UNKNOWN)

IsAsciiLetter(c) ==
    \E i \in 1..Len(UpperChars) : UpperChars[i] = c \/ LowerChars[i] = c

\* the first script pattern that matches, 0 when none does
first_script(text) ==
    LET hits == {k \in 1..Len(SCRIPT_PATTERNS) :
                    \E i \in 1..Len(text) :
                        /\ high_code(text[i]) >= SCRIPT_PATTERNS[k][1]
                        /\ high_code(text[i]) <= SCRIPT_PATTERNS[k][2]}
    IN IF hits = {} THEN 0 ELSE CHOOSE k \in hits : \A j \in hits : k <= j

detect_language_from_script(text) ==
    IF first_script(text) # 0 THEN SCRIPT_PATTERNS[first_script(text)][3]
    ELSE IF \E i \in 1..Len(text) : IsAsciiLetter(text[i])
         THEN <<"E","n","g","l","i","s","h">>
         ELSE Unknown

IsCased(c) == IsAsciiLetter(c)

\* str.title(): a cased character is upper-cased after an uncased one, lower-cased otherwise
upper_char(c) ==
    IF \E i \in 1..Len(LowerChars) : LowerChars[i] = c
    THEN UpperChars[CHOOSE i \in 1..Len(LowerChars) : LowerChars[i] = c]
    ELSE c

title(s) ==
    [i \in 1..Len(s) |->
        IF i = 1 \/ ~IsCased(s[i - 1]) THEN upper_char(s[i]) ELSE lower_char(s[i])]

language_of_code(code) ==
    IF \E p \in LANGUAGE_CODE_MAP : p[1] = code
    THEN (CHOOSE p \in LANGUAGE_CODE_MAP : p[1] = code)[2]
    ELSE <<>>

normalize_language_name(raw) ==
    With(normalize_whitespace(raw), LAMBDA value :
    IF value = <<>> THEN Unknown
    ELSE IF language_of_code(lower(value)) # <<>> THEN language_of_code(lower(value))
    ELSE IF \E p \in LANGUAGE_CODE_MAP : p[2] = title(value) THEN title(value)
    ELSE value)

\* what langdetect's detect() can answer: a code, or LangDetectException
DetectRaises == <<"LangDetectException">>

detect_language_name(text, detected) ==
    With(normalize_whitespace(text), LAMBDA cleaned :
    IF cleaned = <<>> THEN Unknown
    ELSE IF detected # DetectRaises /\ language_of_code(lower(detected)) # <<>>
         THEN language_of_code(lower(detected))
         ELSE normalize_language_name(detect_language_from_script(cleaned)))

\* the last index of a space in s, 0 when there is none
last_space(s) ==
    IF \E i \in 1..Len(s) : s[i] = " "
    THEN CHOOSE i \in 1..Len(s) : s[i] = " " /\ \A j \in (i + 1)..Len(s) : s[j] # " "
    ELSE 0

\* a summary that forgets the room the ellipsis takes and the word boundary
short_summary_uncut(text, max_chars) ==
    With(normalize_whitespace(text), LAMBDA cleaned :
    IF Len(cleaned) <= max_chars THEN cleaned
    ELSE SubSeq(cleaned, 1, max_chars) \o <<".", ".", ".">>)

short_summary_to(text, max_chars) ==
    With(normalize_whitespace(text), LAMBDA cleaned :
    IF Len(cleaned) <= max_chars THEN cleaned
    ELSE With(SubSeq(cleaned, 1, max_chars - 3), LAMBDA cut :
         (IF last_space(cut) # 0 THEN SubSeq(cut, 1, last_space(cut) - 1) ELSE cut)
             \o <<".", ".", ".">>))

short_summary(text) == short_summary_to(text, 220)

IsTokenChar(c) == IsAsciiLetter(c) \/ c = "'"

\* the length of the run of token characters that starts s
RECURSIVE token_run(_)
token_run(s) == IF s # <<>> /\ IsTokenChar(Head(s)) THEN 1 + token_run(Tail(s)) ELSE 0

\* re.findall(r"[a-zA-Z']+", s)
RECURSIVE word_tokens(_)
word_tokens(s) ==
    IF s = <<>> THEN <<>>
    ELSE IF IsTokenChar(Head(s))
         THEN <<SubSeq(s, 1, token_run(s))>>
                  \o word_tokens(SubSeq(s, token_run(s) + 1, Len(s)))
         ELSE word_tokens(Tail(s))

\* str.count(x): occurrences that do not overlap, from the left
RECURSIVE count_sub(_, _)
count_sub(s, x) ==
    IF Len(s) < Len(x) THEN 0
    ELSE IF SubSeq(s, 1, Len(x)) = x
         THEN 1 + count_sub(SubSeq(s, Len(x) + 1, Len(s)), x)
         ELSE count_sub(Tail(s), x)

RECURSIVE count_all(_, _)
count_all(s, xs) ==
    IF xs = <<>> THEN 0 ELSE count_sub(s, Head(xs)) + count_all(s, Tail(xs))

RECURSIVE count_members(_, _)
count_members(words, set) ==
    IF words = <<>> THEN 0
    ELSE (IF Head(words) \in set THEN 1 ELSE 0) + count_members(Tail(words), set)

\* \w of the re module: letters, digits and the underscore
IsWordChar(c) ==
    \/ IsAsciiLetter(c) \/ IsDigit(c) \/ c = "_"
    \/ c \in {"<C2>", "<C3>", "<E2>", "<E9>", "<0915>"}

\* \b at position i of s (between s[i-1] and s[i])
word_boundary(s, i) ==
    (i > 1 /\ i - 1 <= Len(s) /\ IsWordChar(s[i - 1])) # (i <= Len(s) /\ IsWordChar(s[i]))

NEGATORS == { <<"n","o","t">>, <<"n","o">>, <<"n","e","v","e","r">> }
NEGATED_GOOD == { <<"g","o","o","d">>, <<"g","r","e","a","t">>,
                  <<"e","x","c","e","l","l","e","n","t">>, <<"s","u","p","e","r">>,
                  <<"n","i","c","e">> }
NEGATED_BAD == { <<"b","a","d">>, <<"p","o","o","r">>, <<"w","a","s","t","e">>,
                 <<"w","o","r","s","t">> }

\* re.search(r"\b(first)\s+(second)\b", s), the alternatives given as sets
negation_search(s, first, second) ==
    \E i \in 1..Len(s) : \E a \in first : \E b \in second :
        /\ word_boundary(s, i)
        /\ starts_at(s, i, a)
        /\ need_spaces(s, i + Len(a)) # 0
        /\ starts_at(s, need_spaces(s, i + Len(a)), b)
        /\ word_boundary(s, need_spaces(s, i + Len(a)) + Len(b))

Abs(n) == IF n < 0 THEN 0 - n ELSE n
Min(a, b) == IF a <= b THEN a ELSE b
Max(a, b) == IF a >= b THEN a ELSE b

\* pos - neg, in halves
sentiment_delta(lowered) ==
    LET words == word_tokens(lowered)
        pos == 2 * count_members(words, POSITIVE_WORDS) + count_all(lowered, POSITIVE_EMOJI)
               + (IF negation_search(lowered, NEGATORS, NEGATED_BAD) THEN 2 ELSE 0)
        neg == 2 * count_members(words, NEGATIVE_WORDS) + count_all(lowered, NEGATIVE_EMOJI)
               + (IF negation_search(lowered, NEGATORS, NEGATED_GOOD) THEN 2 ELSE 0)
    IN pos - neg

\* delta > 0.35 is delta >= 0.5, for a delta counted in halves
heuristic_label(lowered, delta) ==
    IF delta >= 1 THEN POSITIVE
    ELSE IF delta <= -1 THEN NEGATIVE
    ELSE IF \E i \in 1..Len(lowered) :
                \/ IsAsciiLetter(lowered[i])
                \/ (high_code(lowered[i]) >= 2304 /\ high_code(lowered[i]) <= 3455)
         THEN NEUTRAL
         ELSE UNKNOWN

heuristic_sentiment(text) ==
    With(normalize_whitespace(text), LAMBDA cleaned :
    With(lower(cleaned), LAMBDA lowered :
    With(sentiment_delta(lowered), LAMBDA delta :
    With(heuristic_label(lowered, delta), LAMBDA sentiment :
       IF cleaned = <<>> \/ Len(lowered) <= 3
       THEN [sentiment |-> UNKNOWN, sentiment_score |-> DEFAULT_SENTIMENT_SCORE(UNKNOWN)]
       ELSE [sentiment |-> sentiment,
             sentiment_score |->
                 IF sentiment \in {POSITIVE, NEGATIVE}
                 THEN Min(99000, 55000 + Min(Abs(delta), 10) * 4000)
                 ELSE DEFAULT_SENTIMENT_SCORE(sentiment)]))))

\* the external model's answer: the object parse_gemini_json returns, or why there is
\* none. GeminiUnavailable: get_gemini_model returns None; GeminiRaises: generate_content
\* raises or times out; GeminiUnparseable: the text of the response is not a JSON object
GeminiUnavailable == [unavailable |-> "disabled"]
GeminiRaises == [unavailable |-> "raises"]
GeminiUnparseable == [unavailable |-> "unparseable"]

\* the None a function returns in place of a dict
NoResult == [none |-> TRUE]

\* d.get(key, default)
dict_get(d, key, default) == IF key \in DOMAIN d THEN d[key] ELSE default

\* float(value), default when value is not a number
safe_float(value, default) == IF value \in Int THEN value ELSE default

\* an external result that is kept whatever its label
analyze_with_gemini_any_label(text_input, response) ==
    IF "unavailable" \in DOMAIN response THEN NoResult
    ELSE With(normalize_sentiment(dict_get(response, "sentiment", <<>>)), LAMBDA sentiment :
         [sentiment |-> sentiment,
          sentiment_score |->
              Max(0, Min(100000, safe_float(dict_get(response, "score",
                                                     DEFAULT_SENTIMENT_SCORE(sentiment)),
                                            DEFAULT_SENTIMENT_SCORE(sentiment)))),
          lang |-> normalize_language_name(dict_get(response, "language", Unknown)),
          summary |-> short_summary(dict_get(response, "summary", text_input))])

analyze_with_gemini(text_input, response) ==
    IF "unavailable" \in DOMAIN response THEN NoResult
    ELSE With(normalize_sentiment(dict_get(response, "sentiment", <<>>)), LAMBDA sentiment :
         IF sentiment = UNKNOWN THEN NoResult
         ELSE [sentiment |-> sentiment,
               sentiment_score |->
                   Max(0, Min(100000, safe_float(dict_get(response, "score",
                                                          DEFAULT_SENTIMENT_SCORE(sentiment)),
                                                 DEFAULT_SENTIMENT_SCORE(sentiment)))),
               lang |-> normalize_language_name(dict_get(response, "language", Unknown)),
               summary |-> short_summary(dict_get(response, "summary", text_input))])

EmptyAnalysis ==
    [sentiment |-> UNKNOWN, sentiment_score |-> DEFAULT_SENTIMENT_SCORE(UNKNOWN),
     lang |-> Unknown, summary |-> <<>>]

\* analyze_comment, given what the language detector and the external model answer:
\* the result and the cache after the call
analyze_comment(text, memo, detected, response) ==
    With(fix_mojibake(text), LAMBDA cleaned :
    With(text_hash(cleaned), LAMBDA cache_key :
    With2(heuristic_sentiment(cleaned), analyze_with_gemini(cleaned, response),
          LAMBDA local, gemini :
    With(IF gemini # NoResult THEN gemini
         ELSE [sentiment |-> local.sentiment,
               sentiment_score |-> local.sentiment_score,
               lang |-> detect_language_name(cleaned, detected),
               summary |-> short_summary(cleaned)], LAMBDA result :
       IF cleaned = <<>> THEN [result |-> EmptyAnalysis, memo |-> memo]
       ELSE IF cache_key \in DOMAIN memo THEN [result |-> memo[cache_key], memo |-> memo]
       ELSE [result |-> result,
             memo |-> [k \in DOMAIN memo \cup {cache_key} |->
                          IF k = cache_key THEN result ELSE memo[k]]]))))

BOB == <<"B","o","b">>
GOOD == <<"g","o","o","d">>

----------------------------------------------------------------------------
(* Record extractor and paginator                                          *)

\* an element the selector did not find
NoElement == <<"<no element>">>

\* the rows one list of article containers yields
RECURSIVE extract_articles(_)
extract_articles(articles) ==
    IF articles = <<>> THEN <<>>
    ELSE With(Head(articles), LAMBDA article :
         With2(fix_mojibake(article.body),
               fix_mojibake(IF article.author # NoElement THEN article.author ELSE Unknown),
               LAMBDA text, named :
         With2(IF is_placeholder_author(named) THEN Unknown ELSE named,
               fix_mojibake(IF article.timestamp # NoElement
                            THEN article.timestamp ELSE <<>>),
               LAMBDA author, timestamp :
            IF article.body = NoElement \/ is_junk_or_boilerplate(text)
            THEN extract_articles(Tail(articles))
            ELSE <<[author |-> IF author = <<>> THEN Unknown ELSE author,
                    timestamp |-> timestamp, text |-> text]>>
                     \o extract_articles(Tail(articles)))))

\* the rows the bare comment bodies yield; their timestamp is always empty
RECURSIVE extract_fallback(_)
extract_fallback(nodes) ==
    IF nodes = <<>> THEN <<>>
    ELSE With(Head(nodes), LAMBDA node :
         With2(fix_mojibake(node.body),
               fix_mojibake(IF node.author # NoElement THEN node.author ELSE Unknown),
               LAMBDA text, named :
         With(IF is_placeholder_author(named) THEN Unknown ELSE named, LAMBDA author :
            IF is_junk_or_boilerplate(text)
            THEN extract_fallback(Tail(nodes))
            ELSE <<[author |-> IF author = <<>> THEN Unknown ELSE author,
                    timestamp |-> <<>>, text |-> text]>>
                     \o extract_fallback(Tail(nodes)))))

\* the article containers that have a comment body
RECURSIVE with_body(_)
with_body(articles) ==
    IF articles = <<>> THEN <<>>
    ELSE (IF Head(articles).body # NoElement THEN <<Head(articles)>> ELSE <<>>)
             \o with_body(Tail(articles))

\* A fragment is its article containers and the comment bodies outside any container.
\* The fallback selector finds every comment body, those inside containers too.
extract_comments_from_html(fragment) ==
    With(extract_articles(fragment.articles), LAMBDA rows :
    IF rows # <<>> THEN rows
    ELSE extract_fallback(with_body(fragment.articles) \o fragment.bare))

EmptyFragment == [articles |-> <<>>, bare |-> <<>>]
HttpError == [raises |-> "HTTPError"]
\* the same exception, where a list of rows is expected
HttpErrorRows == <<HttpError>>

\* The page tokens: "0" is <<0>>, "0,N" is <<0, N>> and "N" is <<N>>.
page_tokens(page_index) ==
    IF page_index = 0 THEN << <<0>> >> ELSE << <<0, page_index>>, <<page_index>> >>

\* fetch_ajax_page: what the site answers for a token, HttpError when the request fails
fetch_ajax_page(site, page_token) ==
    IF page_token \in DOMAIN site.ajax THEN site.ajax[page_token] ELSE EmptyFragment

\* the inner loop over the tokens of one page: the first non-empty extraction,
\* or HttpErrorRows as soon as a fetch raises
RECURSIVE fetch_page_rows(_, _)
fetch_page_rows(site, tokens) ==
    IF tokens = <<>> THEN <<>>
    ELSE With(fetch_ajax_page(site, Head(tokens)), LAMBDA fragment :
         IF fragment = HttpError THEN HttpErrorRows
         ELSE With(extract_comments_from_html(fragment), LAMBDA extracted :
              IF extracted # <<>> THEN extracted
              ELSE fetch_page_rows(site, Tail(tokens))))

\* the rows of a page that were not seen before, and the keys seen after it
RECURSIVE collect_new(_, _, _)
collect_new(page_rows, seen_keys, fresh) ==
    IF page_rows = <<>> THEN [fresh |-> fresh, seen_keys |-> seen_keys]
    ELSE IF row_key(Head(page_rows)) \in seen_keys
         THEN collect_new(Tail(page_rows), seen_keys, fresh)
         ELSE collect_new(Tail(page_rows), seen_keys \cup {row_key(Head(page_rows))},
                          Append(fresh, Head(page_rows)))

MAX_PAGES_PER_SCRAPE == 50

\* a break that waits for one more page without rows
streak_ends_late(page_index, empty_streak) == page_index > 0 /\ empty_streak >= 3

\* the break on the streak of pages without rows
streak_ends(page_index, empty_streak) == page_index > 0 /\ empty_streak >= 2

\* the break on a page whose rows were all seen before
stale_page_ends(page_index, new_in_page) == page_index > 0 /\ new_in_page = 0

\* one pass of the for loop of scrape_comments_paginated: the loop variables after
\* it, the page indices asked for so far, whether the loop was left, and the exception
\* a fetch raised
page_step(site, st) ==
    With(fetch_page_rows(site, page_tokens(st.page_index)), LAMBDA page_rows :
    With(collect_new(page_rows, st.seen_keys, <<>>), LAMBDA got :
       IF page_rows = HttpErrorRows
       THEN [st EXCEPT !.asked = Append(@, st.page_index), !.collected = <<>>,
                       !.error = "HTTPError", !.done = TRUE]
       ELSE IF page_rows = <<>>
       THEN [st EXCEPT !.asked = Append(@, st.page_index),
                       !.empty_streak = @ + 1,
                       !.done = streak_ends(st.page_index, st.empty_streak + 1),
                       !.page_index = @ + 1]
       ELSE [st EXCEPT !.asked = Append(@, st.page_index),
                       !.empty_streak = 0,
                       !.collected = @ \o got.fresh,
                       !.seen_keys = got.seen_keys,
                       !.done = stale_page_ends(st.page_index, Len(got.fresh)),
                       !.page_index = @ + 1]))

\* the passes of the for loop until it is left or the range is used up
RECURSIVE paginate_loop(_, _)
paginate_loop(site, st) ==
    IF st.done \/ st.page_index >= MAX_PAGES_PER_SCRAPE THEN st
    ELSE paginate_loop(site, page_step(site, st))

\* the for loop of scrape_comments_paginated, from page_index on: the rows it
\* collects or the exception a fetch raises, and the page indices it asked for
paginate(site, page_index, collected, seen_keys, empty_streak) ==
    With(paginate_loop(site, [page_index |-> page_index, collected |-> collected,
                              seen_keys |-> seen_keys, empty_streak |-> empty_streak,
                              asked |-> <<>>, error |-> None, done |-> FALSE]),
         LAMBDA st : [error |-> st.error, rows |-> st.collected, asked |-> st.asked])

\* site.root is what fetching and parsing the listing page comes to
scrape_comments_paginated(site) ==
    CASE site.root = "unreachable" -> [error |-> "ConnectionError", rows |-> <<>>]
      [] site.root = "no_settings" ->
            [error |-> "Could not find Drupal settings JSON in source page.", rows |-> <<>>]
      [] site.root = "no_views" ->
            [error |-> "Could not find ajax view configuration for comments.", rows |-> <<>>]
      [] site.root = "invalid_view" ->
            [error |-> "Invalid ajax view configuration received.", rows |-> <<>>]
      [] OTHER -> With(paginate(site, 0, <<>>, {}, 0), LAMBDA got :
                       [error |-> got.error, rows |-> got.rows])

----------------------------------------------------------------------------
(* Merge and persistence layer                                             *)

\* The language detector and the external model are outside the program: an oracle
\* gives, for every cleaned text, what they answer when asked about it.
ask(oracle, cleaned) ==
    IF cleaned \in DOMAIN oracle THEN oracle[cleaned]
    ELSE [detected |-> DetectRaises, response |-> GeminiUnavailable]

\* a loop that keeps every row
row_always_kept(text) == FALSE

\* the test on which normalize_rows skips a row
row_dropped(text) == is_junk_or_boilerplate(text)

RECURSIVE normalize_loop(_, _, _, _)
normalize_loop(rows, memo, oracle, normalized) ==
    IF rows = <<>> THEN [rows |-> normalized, memo |-> memo]
    ELSE With(Head(rows), LAMBDA row :
         With2(fix_mojibake(row.text), fix_mojibake(row.author), LAMBDA text, fixed :
         With2(IF fixed = <<>> THEN Unknown ELSE fixed, ask(oracle, fix_mojibake(text)),
               LAMBDA named, asked :
         With2(IF is_placeholder_author(named) THEN Unknown ELSE named,
               analyze_comment(text, memo, asked.detected, asked.response),
               LAMBDA author, analysed :
         With2(analysed.result, normalize_language_name(analysed.result.lang),
               LAMBDA analysis, lang :
            IF row_dropped(text)
            THEN normalize_loop(Tail(rows), memo, oracle, normalized)
            ELSE normalize_loop(Tail(rows), analysed.memo, oracle,
                     Append(normalized,
                            [author |-> author,
                             timestamp |-> fix_mojibake(row.timestamp),
                             text |-> text,
                             lang |-> IF lang = <<>> THEN Unknown ELSE lang,
                             sentiment |-> normalize_sentiment(analysis.sentiment),
                             sentiment_score |-> analysis.sentiment_score,
                             summary |-> short_summary(analysis.summary)])))))))

\* the rows normalize_rows returns, and the analysis cache after it
normalize_rows(rows, memo, oracle) == normalize_loop(rows, memo, oracle, <<>>)

\* f"{score:.4f}": a score in units of 0.00001, rounded to a multiple of 0.0001
format_score(score) ==
    LET q == score \div 10
        r == score % 10
    IN IF r < 5 THEN 10 * q
       ELSE IF r > 5 THEN 10 * (q + 1)
       ELSE IF q % 2 = 0 THEN 10 * q ELSE 10 * (q + 1)

\* the table save_rows_to_csv writes
save_rows_to_csv(rows) ==
    [i \in 1..Len(rows) |->
        [author |-> rows[i].author,
         timestamp |-> rows[i].timestamp,
         text |-> rows[i].text,
         lang |-> rows[i].lang,
         sentiment |-> normalize_sentiment(rows[i].sentiment),
         sentiment_score |-> format_score(rows[i].sentiment_score),
         summary |-> rows[i].summary]]

\* the rows load_rows_from_csv reads from a table; a missing table is an empty one
load_rows_from_csv(table) ==
    [i \in 1..Len(table) |->
        [author |-> table[i].author,
         timestamp |-> table[i].timestamp,
         text |-> table[i].text,
         lang |-> table[i].lang,
         sentiment |-> table[i].sentiment,
         sentiment_score |-> table[i].sentiment_score,
         summary |-> table[i].summary]]

\* the four tables of a source
Copies == {"csv", "dashboard_csv", "raw_csv", "dashboard_raw_csv"}

\* the cleaned texts normalize_rows asks the analyser about
texts_of(rows) == { fix_mojibake(fix_mojibake(rows[i].text)) : i \in 1..Len(rows) }

\* scrape_and_analyze_source after the scrape: the rows it returns or the error it
\* raises, the tables and the analysis cache it leaves
analyze_merge_persist(scraped_rows, tables, memo, oracle) ==
    With(normalize_rows(scraped_rows, memo, oracle), LAMBDA analyzed :
    IF analyzed.rows = <<>>
    THEN [error |-> "No valid comments after analysis.", rows |-> <<>>,
          tables |-> tables, memo |-> analyzed.memo]
    ELSE With(normalize_rows(load_rows_from_csv(tables["csv"]), analyzed.memo, oracle),
              LAMBDA existing :
         With(merge_with_existing(analyzed.rows, existing.rows), LAMBDA merged_rows :
            [error |-> None, rows |-> merged_rows,
             tables |-> [c \in Copies |-> save_rows_to_csv(merged_rows)],
             memo |-> existing.memo])))

----------------------------------------------------------------------------
(* Refresh orchestrator: state                                             *)

\* the source ids, in the order SITE_CONFIG lists them
SITE_CONFIG == <<"site1", "site2">>
Sources == { SITE_CONFIG[i] : i \in 1..Len(SITE_CONFIG) }

REFRESH_INTERVAL_SECONDS == 5

\* the background threads a run starts at most, and the last second of its clock
MaxThreads == 3
MaxTime == 1
\* the same, for the runs that outlast the freshness window
TimeMaxThreads == 3
TimeMaxTime == 5
\* the same, for the runs in which threads get to run
FairMaxThreads == 2
FairMaxTime == 1
\* the same, for the runs that draw on every site and every seed
DataMaxThreads == 3
DataMaxTime == 1

Tids == 1..Max(Max(MaxThreads, FairMaxThreads), Max(TimeMaxThreads, DataMaxThreads))

\* a timestamp is <<t>>; Python's None is <<>>
NoTime == <<>>
NoRequest == "no request"
NoSnapshot == [payload |-> [source_id |-> "no snapshot"]]
NoCall == [called |-> FALSE]

\* _site_states as the module builds it
InitialSiteState ==
    [comments |-> <<>>, last_updated |-> NoTime, in_progress |-> FALSE, last_error |-> None]

\* a thread object that was not created yet
Unborn ==
    [source_id |-> None, pc |-> "unborn", rows |-> <<>>, error |-> None,
     attempts |-> 0, before |-> [none |-> TRUE]]

----------------------------------------------------------------------------
(* What the world outside answers                                          *)

Art1 == [body |-> GOOD, author |-> BOB, timestamp |-> <<"1","d">>]
Art2 == [body |-> <<" ">> \o title(GOOD), author |-> lower(BOB) \o <<" ">>,
         timestamp |-> <<"2","d">>]
Art3 == [body |-> <<"b","a","d","!">>, author |-> <<"u","s","e","r">>,
         timestamp |-> NoElement]
ArtJunk == [body |-> <<"o","k">>, author |-> <<"A","l">>, timestamp |-> NoElement]
\* a body that was mis-decoded twice: one repair leaves four characters, two leave two
ArtTwice == [body |-> <<"<C3>","<83>","<C2>","<A9>","<C3>","<83>","<C2>","<A9>">>,
             author |-> <<"A","l">>, timestamp |-> NoElement]

Page(articles) == [articles |-> articles, bare |-> <<>>]
NoPages == [k \in {} |-> EmptyFragment]

SiteDown == [root |-> "unreachable", ajax |-> NoPages]
SiteOne == [root |-> "ok", ajax |-> [k \in {<<0>>} |-> Page(<<Art1, Art3>>)]]
SiteTwo == [root |-> "ok", ajax |-> [k \in {<<0>>} |-> Page(<<Art2, ArtJunk>>)]]

\* the remote sites a scrape can meet
FewSites == { SiteDown, SiteOne }

AllSites == FewSites \cup {
    SiteTwo,
    [root |-> "no_settings", ajax |-> NoPages],
    [root |-> "no_views", ajax |-> NoPages],
    [root |-> "invalid_view", ajax |-> NoPages],
    [root |-> "ok", ajax |-> NoPages],
    [root |-> "ok", ajax |-> [k \in {<<0>>, <<1>>} |->
                                 IF k = <<0>> THEN Page(<<Art1>>) ELSE Page(<<Art2, Art3>>)]],
    [root |-> "ok", ajax |-> [k \in {<<0>>} |-> Page(<<ArtTwice>>)]],
    [root |-> "ok", ajax |-> [k \in {<<0>>, <<0, 1>>} |->
                                 IF k = <<0>> THEN Page(<<Art1>>) ELSE HttpError]]
}

DetectAnswers == { <<"e","n">>, DetectRaises }

GeminiAnswer ==
    [sentiment |-> <<"N","E","U","T","R","A","L">>, score |-> 87654,
     language |-> <<"e","n">>, summary |-> <<"f","i","n","e">>]

GeminiResponses == { GeminiUnavailable, GeminiAnswer }

\* the detector and the external model both answer, or neither does
OracleAnswers ==
    { [detected |-> <<"e","n">>, response |-> GeminiAnswer],
      [detected |-> DetectRaises, response |-> GeminiUnavailable] }

\* the external model is disabled and the detector knows the language
LocalAnswers == { [detected |-> <<"e","n">>, response |-> GeminiUnavailable] }

\* the oracles for the texts that are not in the cache yet
Oracles(texts, memo) ==
    [ { x \in texts : text_hash(x) \notin DOMAIN memo } ->
        IF world.answers = "local" THEN LocalAnswers ELSE OracleAnswers ]

StoredRow(author, timestamp, text) ==
    [author |-> author, timestamp |-> timestamp, text |-> text,
     lang |-> <<"E","n","g","l","i","s","h">>, sentiment |-> NEUTRAL,
     sentiment_score |-> 50000, summary |-> text]

NoTables == [c \in Copies |-> <<>>]
BobTables == [c \in Copies |-> << StoredRow(BOB, <<"1","d">>, GOOD) >>]

\* a table with a row whose text is junk and a row whose author is a placeholder
JunkTables ==
    [c \in Copies |-> IF c = "csv"
                      THEN << StoredRow(<<"A","l">>, <<>>, <<"o","k">>),
                              StoredRow(<<"h","o","m","e">>, <<>>, <<"b","a","d","!">>) >>
                      ELSE <<>>]

\* the tables a source can have on disk when the process starts
SeedTables == {
    NoTables,
    BobTables,
    [c \in Copies |-> IF c = "dashboard_csv"
                      THEN << StoredRow(lower(BOB), <<"0","d">>, title(GOOD)) >>
                      ELSE <<>>],
    JunkTables
}

----------------------------------------------------------------------------
(* Refresh orchestrator: operations                                        *)

\* a freshness test that asks for more than the window
should_refresh_older(last_updated, clock) ==
    IF last_updated = NoTime THEN TRUE
    ELSE IF Len(last_updated) # 1 THEN TRUE
    ELSE clock - last_updated[1] > REFRESH_INTERVAL_SECONDS

should_refresh(last_updated, clock) ==
    IF last_updated = NoTime THEN TRUE
    ELSE IF Len(last_updated) # 1 THEN TRUE    \* datetime.fromisoformat raises
    ELSE clock - last_updated[1] >= REFRESH_INTERVAL_SECONDS

\* a trigger that lets a forced call through while a refresh runs
trigger_starts_forced(state, force, clock) ==
    \/ force
    \/ ~state.in_progress /\ should_refresh(state.last_updated, clock)

\* whether trigger_refresh_if_needed starts a thread, the state lock held
trigger_starts(state, force, clock) ==
    /\ ~state.in_progress
    /\ (force \/ should_refresh(state.last_updated, clock))

\* the thread object trigger_refresh_if_needed creates and starts
new_thread(source_id) == [Unborn EXCEPT !.source_id = source_id, !.pc = "start"]

\* the threads created so far
Born == { t \in Tids : threads[t].pc # "unborn" }

\* trigger_refresh_if_needed: its effect on the threads, and what it returns
Trigger(source_id, force) ==
    LET started == trigger_starts(site_states[source_id], force, now) IN
    /\ started => Cardinality(Born) < world.threads
    /\ threads' = IF started
                  THEN [threads EXCEPT ![Cardinality(Born) + 1] = new_thread(source_id)]
                  ELSE threads
    /\ ret' = [called |-> TRUE, source_id |-> source_id, force |-> force,
               started |-> started]
    /\ UNCHANGED <<world, site_states, pub, files, cache, now>>

\* the tables ensure_seed_data reads for a source, in this order
SeedOrder == <<"csv", "dashboard_csv", "raw_csv", "dashboard_raw_csv">>

RECURSIVE seed_from(_, _, _, _)
seed_from(tables, order, memo, oracle) ==
    IF order = <<>> THEN [rows |-> <<>>, memo |-> memo]
    ELSE With(normalize_rows(load_rows_from_csv(tables[Head(order)]), memo, oracle),
              LAMBDA read :
            IF read.rows # <<>> THEN read
            ELSE seed_from(tables, Tail(order), read.memo, oracle))

\* the loop of ensure_seed_data over the sources: the state of each, and the cache
RECURSIVE seed_all(_, _, _, _, _)
seed_all(order, states, memo, oracle, clock) ==
    IF order = <<>> THEN [states |-> states, memo |-> memo]
    ELSE With(seed_from(files[Head(order)], SeedOrder, memo, oracle), LAMBDA processed :
            seed_all(Tail(order),
                     [states EXCEPT ![Head(order)].comments = processed.rows,
                                    ![Head(order)].last_updated =
                                        IF processed.rows # <<>> THEN <<clock>> ELSE NoTime],
                     processed.memo, oracle, clock))

AllTableTexts ==
    UNION { texts_of(files[s][c]) : s \in Sources, c \in Copies }

ensure_seed_data ==
    /\ boot # <<>> /\ Head(boot) = "seed"
    /\ \E seeded \in { seed_all(SITE_CONFIG, site_states, cache, oracle, now) :
                           oracle \in Oracles(AllTableTexts, cache) } :
          /\ site_states' = seeded.states
          /\ pub' = [s \in Sources |-> [rows |-> seeded.states[s].comments,
                                         at |-> seeded.states[s].last_updated,
                                         clean |-> TRUE]]
          /\ cache' = seeded.memo
    /\ boot' = Tail(boot)
    /\ ret' = NoCall /\ snap' = NoSnapshot
    /\ UNCHANGED <<world, threads, files, now, req, mergeVars>>

\* the loop of __main__ that forces a first refresh of every source
main_trigger ==
    /\ boot # <<>> /\ Head(boot) \in Sources
    /\ Trigger(Head(boot), TRUE)
    /\ boot' = Tail(boot)
    /\ snap' = NoSnapshot
    /\ UNCHANGED <<req, mergeVars>>

refresh_now(source_id) ==
    /\ boot = <<>>
    /\ Trigger(source_id, TRUE)
    /\ snap' = NoSnapshot
    /\ UNCHANGED <<boot, req, mergeVars>>

\* get_live_comments up to the end of its first critical section
get_live_comments(source_id) ==
    /\ boot = <<>> /\ req = NoRequest
    /\ Trigger(source_id, FALSE)
    /\ req' = source_id
    /\ snap' = NoSnapshot
    /\ UNCHANGED <<boot, mergeVars>>

state_payload(source_id) ==
    [source_id |-> source_id,
     comments |-> site_states[source_id].comments,
     last_updated |-> site_states[source_id].last_updated,
     in_progress |-> site_states[source_id].in_progress,
     last_error |-> site_states[source_id].last_error]

\* get_live_comments from state_payload on
get_live_comments_respond ==
    /\ req # NoRequest
    /\ snap' = [payload |-> state_payload(req), pub |-> pub[req]]
    /\ req' = NoRequest
    /\ ret' = NoCall
    /\ UNCHANGED <<world, boot, site_states, pub, threads, files, cache, now, mergeVars>>

\* a thread that does not look at the flag
always_enter(state) == TRUE

\* refresh_site_state goes on past its first critical section
may_enter(state) == ~state.in_progress

\* refresh_site_state, first critical section: return, or take the source
refresh_enter(t) ==
    LET s == threads[t].source_id IN
    /\ threads[t].pc = "start"
    /\ IF may_enter(site_states[s])
       THEN /\ site_states' = [site_states EXCEPT ![s].in_progress = TRUE,
                                                  ![s].last_error = None]
            /\ pub' = [pub EXCEPT ![s].clean = FALSE]
            /\ threads' = [threads EXCEPT ![t].pc = "pipeline",
                              ![t].before = [comments |-> site_states[s].comments,
                                             last_updated |-> site_states[s].last_updated,
                                             tables |-> files[s]]]
       ELSE /\ threads' = [threads EXCEPT ![t].pc = "done"]
            /\ UNCHANGED <<site_states, pub>>
    /\ ret' = NoCall /\ snap' = NoSnapshot
    /\ UNCHANGED <<world, boot, files, cache, now, req, mergeVars>>

\* scrape_and_analyze_source up to the check of the scraped rows
scraped(site) ==
    With(scrape_comments_paginated(site), LAMBDA got :
    IF got.error = None /\ got.rows = <<>>
    THEN [error |-> "No comments extracted from source.", rows |-> <<>>]
    ELSE got)

\* what the scrape comes to, for every site of a kind of world
FewScrapes == { scraped(site) : site \in FewSites }
AllScrapes == { scraped(site) : site \in AllSites }
DownScrapes == { scraped(SiteDown) }

Scrapes(kind) ==
    CASE kind = "few" -> FewScrapes
      [] kind = "all" -> AllScrapes
      [] OTHER -> DownScrapes

\* scrape_and_analyze_source after the scrape: what it returns or raises, the tables
\* and the cache it leaves
scrape_and_analyze_source(got, tables, memo, oracle) ==
    IF got.error # None
    THEN [error |-> got.error, rows |-> <<>>, tables |-> tables, memo |-> memo]
    ELSE analyze_merge_persist(got.rows, tables, memo, oracle)

\* the texts one run of the pipeline can ask the analyser about
pipeline_texts(got, tables) ==
    IF got.error # None THEN {}
    ELSE texts_of(got.rows) \cup texts_of(tables["csv"])

\* the try block of refresh_site_state up to the return of scrape_and_analyze_source
refresh_pipeline(t) ==
    LET s == threads[t].source_id IN
    /\ threads[t].pc = "pipeline"
    /\ \E done \in UNION { { scrape_and_analyze_source(got, files[s], cache, oracle) :
                               oracle \in Oracles(pipeline_texts(got, files[s]), cache) } :
                           got \in Scrapes(world.sites[s]) } :
          /\ threads' = [threads EXCEPT ![t].pc = IF done.error = None
                                                  THEN "publish" ELSE "except",
                                        ![t].rows = done.rows,
                                        ![t].error = done.error,
                                        ![t].attempts = @ + 1]
          /\ files' = [files EXCEPT ![s] = done.tables]
          /\ cache' = done.memo
    /\ ret' = NoCall /\ snap' = NoSnapshot
    /\ UNCHANGED <<world, boot, site_states, pub, now, req, mergeVars>>

\* a success branch that leaves the time of the last update alone
published_undated(state, merged_rows, clock) ==
    [state EXCEPT !.comments = merged_rows, !.last_error = None]

\* the three assignments of the success branch
published(state, merged_rows, clock) ==
    [state EXCEPT !.comments = merged_rows, !.last_updated = <<clock>>, !.last_error = None]

refresh_publish(t) ==
    LET s == threads[t].source_id IN
    /\ threads[t].pc = "publish"
    /\ site_states' = [site_states EXCEPT ![s] = published(@, threads[t].rows, now)]
    /\ pub' = [pub EXCEPT ![s] = [rows |-> threads[t].rows, at |-> <<now>>, clean |-> TRUE]]
    /\ threads' = [threads EXCEPT ![t].pc = "finally"]
    /\ ret' = NoCall /\ snap' = NoSnapshot
    /\ UNCHANGED <<world, boot, files, cache, now, req, mergeVars>>

\* an except branch that also empties the comment list
failed_clears(state, message) == [state EXCEPT !.last_error = message, !.comments = <<>>]

\* the assignment of the except branch
failed(state, message) == [state EXCEPT !.last_error = message]

refresh_except(t) ==
    LET s == threads[t].source_id IN
    /\ threads[t].pc = "except"
    /\ site_states' = [site_states EXCEPT ![s] = failed(@, threads[t].error)]
    /\ pub' = [pub EXCEPT ![s].clean = FALSE]
    /\ threads' = [threads EXCEPT ![t].pc = "finally"]
    /\ ret' = NoCall /\ snap' = NoSnapshot
    /\ UNCHANGED <<world, boot, files, cache, now, req, mergeVars>>

\* a finally block that releases nothing
released_never(state) == state

\* the assignment of the finally block
released(state) == [state EXCEPT !.in_progress = FALSE]

refresh_finally(t) ==
    LET s == threads[t].source_id IN
    /\ threads[t].pc = "finally"
    /\ site_states' = [site_states EXCEPT ![s] = released(@)]
    /\ threads' = [threads EXCEPT ![t] = [Unborn EXCEPT !.pc = "done", !.source_id = s,
                                                         !.attempts = threads[t].attempts,
                                                         !.error = threads[t].error]]
    /\ ret' = NoCall /\ snap' = NoSnapshot
    /\ UNCHANGED <<world, boot, pub, files, cache, now, req, mergeVars>>

\* a second passes
Tick ==
    /\ now < world.horizon
    /\ now' = now + 1
    /\ ret' = NoCall /\ snap' = NoSnapshot
    /\ UNCHANGED <<world, boot, site_states, pub, threads, files, cache, req, mergeVars>>

\* the refresh threads a run followed lock by lock starts at most
MaxRefreshers == 2

\* the threads of such a run: __main__, the refresh threads, one request handler
MAIN == 0
Refreshers == 1..MaxRefreshers
HANDLER == MaxRefreshers + 1
LockThreads == MAIN..HANDLER

\* no thread holds the lock
Free == MAIN - 1

\* a thread that does not run
LkUnborn ==
    [pc |-> "unborn", source_id |-> None, queue |-> <<>>, copies |-> <<>>,
     todo |-> <<>>, after |-> "none", cached |-> [none |-> TRUE],
     computed |-> [none |-> TRUE],
     done |-> <<>>, analyzed |-> <<>>, error |-> None]

\* no run is followed lock by lock
LockIdle ==
    /\ locks = [state |-> Free, cache |-> Free]
    /\ lk = [th \in LockThreads |-> LkUnborn]

\* no helper is applied on its own
NoInput == [fn |-> "none"]
NoOutput == [fn |-> "none"]
FnIdle == fIn = NoInput /\ fOut = NoOutput /\ LockIdle

MergeIdle ==
    /\ mA = <<>> /\ mB = <<>> /\ mOut = <<>> /\ mPhase = "idle" /\ mApplied = 0
    /\ FnIdle

\* the process as __main__ finds it, the tables on disk apart
Started ==
    /\ boot = <<"seed">> \o SITE_CONFIG
    /\ site_states = [s \in Sources |-> InitialSiteState]
    /\ pub = [s \in Sources |-> [rows |-> <<>>, at |-> NoTime, clean |-> TRUE]]
    /\ threads = [t \in Tids |-> Unborn]
    /\ cache = <<>>
    /\ now = 0
    /\ ret = NoCall
    /\ snap = NoSnapshot
    /\ req = NoRequest

\* runs that outlast the freshness window: the first source up, the second one unreachable
TimeInit ==
    /\ world = [sites |-> [s \in Sources |-> IF s = SITE_CONFIG[1] THEN "few" ELSE "down"],
                answers |-> "local",
                threads |-> TimeMaxThreads, horizon |-> TimeMaxTime]
    /\ files = [s \in Sources |-> IF s = SITE_CONFIG[1] THEN BobTables ELSE NoTables]
    /\ Started
    /\ MergeIdle

\* runs with few sites and the external model disabled, for the interleavings
Init ==
    /\ world = [sites |-> [s \in Sources |-> "few"], answers |-> "local",
                threads |-> MaxThreads, horizon |-> MaxTime]
    /\ files = [s \in Sources |-> IF s = SITE_CONFIG[1] THEN BobTables ELSE NoTables]
    /\ Started
    /\ MergeIdle

\* runs with every site for the first source, its tables holding a comment or rows
\* that no longer pass the filters; the second source unreachable and without tables
DataInit ==
    /\ world = [sites |-> [s \in Sources |-> IF s = SITE_CONFIG[1] THEN "all" ELSE "down"],
                answers |-> "local",
                threads |-> DataMaxThreads, horizon |-> DataMaxTime]
    /\ files \in { f \in [Sources -> SeedTables] :
                        /\ f[SITE_CONFIG[1]] \in {BobTables, JunkTables}
                        /\ f[SITE_CONFIG[2]] = NoTables }
    /\ Started
    /\ MergeIdle

\* a comment that only the published copy holds, or only the archival one
AL == <<"A","l">>
FINE_PLAN == <<"f","i","n","e"," ","p","l","a","n">>
DashTables ==
    [c \in Copies |-> IF c = "dashboard_csv"
                      THEN << StoredRow(AL, <<"0","d">>, FINE_PLAN) >> ELSE <<>>]
RawTables ==
    [c \in Copies |-> IF c \in {"raw_csv", "dashboard_raw_csv"}
                      THEN << StoredRow(AL, <<"0","d">>, FINE_PLAN) >> ELSE <<>>]

\* runs in which the working copy of the first source is missing while another copy
\* holds a comment; the second source unreachable and without tables
SeedInit ==
    /\ world = [sites |-> [s \in Sources |-> IF s = SITE_CONFIG[1] THEN "few" ELSE "down"],
                answers |-> "local",
                threads |-> MaxThreads, horizon |-> MaxTime]
    /\ files \in { f \in [Sources -> {NoTables, DashTables, RawTables}] :
                        /\ f[SITE_CONFIG[1]] \in {DashTables, RawTables}
                        /\ f[SITE_CONFIG[2]] = NoTables }
    /\ Started
    /\ MergeIdle

-----------------------------------------------------------------------------
(* merge_with_existing on its own                                          *)

\* the longest list handed to the merge, and the most re-applications of it
MaxMergeLen == 2
MaxApply == 2

\* rows of two identities; the rows of one identity differ in case, spacing,
\* timestamp and analysis
MergeRows ==
    { StoredRow(BOB, <<"1","d">>, GOOD),
      [StoredRow(<<" ">> \o lower(BOB), <<"2","d">>, title(GOOD) \o <<" ">>)
          EXCEPT !.sentiment = POSITIVE, !.sentiment_score = 87000],
      StoredRow(<<"A","l">>, <<>>, <<"o","k">>),
      [StoredRow(<<"A","L">>, <<"3","h">>, <<"o","k">>) EXCEPT !.sentiment = NEGATIVE] }

MergeLists == UNION { [1..n -> MergeRows] : n \in 0..MaxMergeLen }

MergeInit ==
    /\ world = [sites |-> [s \in Sources |-> "few"], answers |-> "local",
                threads |-> 0, horizon |-> 0]
    /\ files = [s \in Sources |-> NoTables]
    /\ Started
    /\ mA \in MergeLists /\ mB \in MergeLists
    /\ mOut = <<>> /\ mPhase = "input" /\ mApplied = 0
    /\ FnIdle

\* merge_with_existing(new_rows, existing_rows)
merge_first ==
    /\ mPhase = "input"
    /\ mOut' = merge_with_existing(mA, mB)
    /\ mPhase' = "merged" /\ mApplied' = 1
    /\ UNCHANGED <<appVars, mA, mB, fIn, fOut, locks, lk>>

\* the result merged with the same existing rows again
merge_again ==
    /\ mPhase # "input" /\ mApplied < MaxApply
    /\ mOut' = merge_with_existing(mOut, mB)
    /\ mPhase' = "remerged" /\ mApplied' = mApplied + 1
    /\ UNCHANGED <<appVars, mA, mB, fIn, fOut, locks, lk>>

\* the same new rows merged with the result, as a refresh that scrapes them again does
merge_rescrape ==
    /\ mPhase # "input" /\ mApplied < MaxApply
    /\ mOut' = merge_with_existing(mA, mOut)
    /\ mPhase' = "remerged" /\ mApplied' = mApplied + 1
    /\ UNCHANGED <<appVars, mA, mB, fIn, fOut, locks, lk>>

MergeNext == merge_first \/ merge_again \/ merge_rescrape

SpecMerge == MergeInit /\ [][MergeNext]_vars

\* the identities of a list of rows
keys_of(rows) == { row_key(rows[i]) : i \in 1..Len(rows) }

\* C9: merge_with_existing is idempotent: merging the result with the same existing
\* rows again, or the same new rows with the result, any number of times, gives
\* the list (and so the identities) of the first merge.
C9_MergeIdempotent ==
    mPhase = "remerged" =>
        /\ mOut = merge_with_existing(mA, mB)
        /\ keys_of(mOut) = keys_of(merge_with_existing(mA, mB))

C9_Witness ==
    /\ mPhase = "remerged" /\ mApplied = MaxApply
    /\ mA # <<>> /\ mB # <<>>
    /\ keys_of(mA) \cap keys_of(mB) # {}
    /\ Len(mOut) < Len(mA) + Len(mB)

\* the places of a list that hold the first row of their identity
first_places(rows) ==
    { i \in 1..Len(rows) : \A j \in 1..(i - 1) : row_key(rows[j]) # row_key(rows[i]) }

\* the k-th smallest of a set of places
kth_place(places, k) ==
    CHOOSE i \in places : Cardinality({ j \in places : j <= i }) = k

\* C10: the merge returns the rows of new followed by those of existing, keeping the
\* first row of each identity in order; an identity of both lists keeps the row of
\* new, whole; every identity of either list occurs exactly once.
C10_MergeFirstOccurrence ==
    mPhase = "merged" =>
        LET both == mA \o mB
            places == first_places(both)
        IN /\ Len(mOut) = Cardinality(places)
           /\ \A k \in 1..Len(mOut) : mOut[k] = both[kth_place(places, k)]
           /\ \A key \in keys_of(both) :
                 Cardinality({ k \in 1..Len(mOut) : row_key(mOut[k]) = key }) = 1
           /\ \A key \in keys_of(mA) \cap keys_of(mB) :
                 \E k \in 1..Len(mOut) :
                    /\ row_key(mOut[k]) = key
                    /\ mOut[k] = mA[kth_place({ i \in 1..Len(mA) : row_key(mA[i]) = key }, 1)]

C10_Witness ==
    /\ mPhase = "merged"
    /\ Len(mA) = MaxMergeLen /\ Len(mB) = MaxMergeLen
    /\ \E i \in 1..Len(mA), j \in 1..Len(mB) :
          row_key(mA[i]) = row_key(mB[j]) /\ mA[i] # mB[j]
    /\ Len(mOut) = 2 /\ mOut[1] = mA[1] /\ mOut[2] \in { mA[2], mB[1], mB[2] }

-----------------------------------------------------------------------------

Next ==
    \/ ensure_seed_data
    \/ main_trigger
    \/ \E s \in Sources : refresh_now(s)
    \/ \E s \in Sources : get_live_comments(s)
    \/ get_live_comments_respond
    \/ \E t \in Tids : refresh_enter(t)
    \/ \E t \in Tids : refresh_pipeline(t)
    \/ \E t \in Tids : refresh_publish(t)
    \/ \E t \in Tids : refresh_except(t)
    \/ \E t \in Tids : refresh_finally(t)
    \/ Tick

Spec == Init /\ [][Next]_vars

TimeSpec == TimeInit /\ [][Next]_vars

SeedSpec == SeedInit /\ [][Next]_vars

DataSpec == DataInit /\ [][Next]_vars

\* the runs of FairSpec start with the threads of the startup alone
FairInit ==
    /\ world = [sites |-> [s \in Sources |-> "few"], answers |-> "local",
                threads |-> FairMaxThreads, horizon |-> FairMaxTime]
    /\ files = [s \in Sources |-> IF s = SITE_CONFIG[1] THEN BobTables ELSE NoTables]
    /\ Started
    /\ MergeIdle

\* threads get to run, and the pipeline of each returns or raises: no thread stays
\* in scrape_and_analyze_source for ever
FairSpec ==
    /\ FairInit /\ [][Next]_vars
    /\ WF_vars(\E t \in Tids : refresh_enter(t))
    /\ \A t \in Tids : []<>(threads[t].pc # "pipeline")
    /\ WF_vars(\E t \in Tids : refresh_publish(t))
    /\ WF_vars(\E t \in Tids : refresh_except(t))
    /\ WF_vars(\E t \in Tids : refresh_finally(t))

-----------------------------------------------------------------------------
(* Refresh state machine                                                   *)

\* the threads of a source between taking it and releasing it
Holding(s) ==
    { t \in Tids : threads[t].source_id = s
                   /\ threads[t].pc \in {"pipeline", "publish", "except", "finally"} }

\* the threads of a source that were started and have not returned
Live(s) ==
    { t \in Tids : threads[t].source_id = s /\ threads[t].pc \notin {"unborn", "done"} }

C1_Returns ==
    \A t \in Tids :
        (/\ threads[t].pc = "start"
         /\ threads'[t].pc # "start"
         /\ site_states[threads[t].source_id].in_progress)
        => /\ threads'[t].pc = "done"
           /\ threads'[t].attempts = 0
           /\ site_states' = site_states
           /\ files' = files

\* C1: for every source, at most one thread is in the pipeline between taking the
\* source and releasing it; a thread that finds in_progress set returns without
\* running the pipeline and without touching the state of the source.
C1_OneRefreshPerSource ==
    /\ [](\A s \in Sources : Cardinality(Holding(s)) <= 1)
    /\ [][C1_Returns]_vars

C1_Witness ==
    \E t \in Tids, u \in Tids :
        /\ threads[t].source_id = threads[u].source_id
        /\ threads[t].pc = "done" /\ threads[t].attempts = 0
        /\ threads[u].pc = "pipeline"
        /\ site_states[threads[u].source_id].in_progress

\* C2: between a trigger call that starts a thread for a source and the return of
\* that thread, no other trigger call starts a thread for the source.
C2_TriggerAtomic ==
    \A s \in Sources : Cardinality(Live(s)) <= 1

C3_Rejected ==
    ret'.called =>
        (site_states[ret'.source_id].in_progress
         => /\ ~ret'.started
            /\ threads' = threads
            /\ site_states' = site_states
            /\ files' = files)

\* C3: a trigger call, forced or not, made while in_progress is set returns False,
\* starts no thread, changes no field of the source and no thread: the call leaves
\* nothing behind that could start a refresh later, and the running one goes on.
C3_BusyTriggerRejected == [][C3_Rejected]_vars

C3_Witness ==
    /\ ret.called /\ ret.force /\ ~ret.started
    /\ site_states[ret.source_id].in_progress
    /\ \E t \in Holding(ret.source_id) : threads[t].pc = "pipeline"

\* the messages of the conditions that end a refresh
RefreshFatal ==
    { "ConnectionError",
      "Could not find Drupal settings JSON in source page.",
      "Could not find ajax view configuration for comments.",
      "Invalid ajax view configuration received.",
      "No comments extracted from source.",
      "No valid comments after analysis." }

\* C4: when the pipeline of a refresh raises one of the fatal conditions, the comment
\* list and last_updated of the source are what they were when the refresh took the
\* source, no table of the source was written, the pipeline ran once, and once the
\* except branch ran last_error holds the message.
C4_FailedRefreshKeepsState ==
    \A t \in Tids :
        (threads[t].pc \in {"except", "finally"} /\ threads[t].error \in RefreshFatal)
        => LET s == threads[t].source_id IN
           /\ site_states[s].comments = threads[t].before.comments
           /\ site_states[s].last_updated = threads[t].before.last_updated
           /\ files[s] = threads[t].before.tables
           /\ threads[t].attempts = 1
           /\ threads[t].pc = "finally" => site_states[s].last_error = threads[t].error

C4_Witness ==
    \E t \in Tids :
        /\ threads[t].pc = "finally"
        /\ threads[t].error = "No valid comments after analysis."
        /\ threads[t].before.comments # <<>>
        /\ site_states[threads[t].source_id].last_error = threads[t].error

\* C5: the comment list and last_updated of a source are always those of its last
\* successful refresh (or of the seeding), set together with a null last_error, and
\* every payload handed to a client shows them together.
C5_PublishedTogether ==
    /\ \A s \in Sources :
          /\ site_states[s].comments = pub[s].rows
          /\ site_states[s].last_updated = pub[s].at
          /\ pub[s].clean => site_states[s].last_error = None
    /\ snap.payload.source_id \in Sources
       => /\ snap.payload.comments = snap.pub.rows
          /\ snap.payload.last_updated = snap.pub.at
          /\ snap.pub.clean => snap.payload.last_error = None

C5_Witness ==
    /\ snap.payload.source_id \in Sources
    /\ snap.payload.in_progress
    /\ snap.payload.last_updated # NoTime
    /\ snap.payload.last_error = None
    /\ \E t \in Holding(snap.payload.source_id) :
          /\ threads[t].pc = "finally" /\ threads[t].error = None
          /\ threads[t].before.comments # threads[t].rows
          /\ snap.payload.comments = threads[t].rows
          /\ snap.payload.last_updated = <<now>> /\ now > 0

\* C6: a source whose in_progress is set gets it cleared, whether the pipeline
\* returned or raised, given that threads run and the pipeline ends.
C6_FlagReleased ==
    \A s \in Sources : site_states[s].in_progress ~> ~site_states[s].in_progress

C6_Witness ==
    \E t \in Tids :
        /\ threads[t].pc = "done" /\ threads[t].attempts = 1
        /\ threads[t].error # None
        /\ ~site_states[threads[t].source_id].in_progress
        /\ site_states[threads[t].source_id].last_error = threads[t].error

\* a last_updated that datetime.fromisoformat rejects
Unparsable == <<"n", "o">>

C7_Decided ==
    ret'.called =>
        LET state == site_states[ret'.source_id] IN
        /\ ret'.started =
              (/\ ~state.in_progress
               /\ \/ ret'.force
                  \/ state.last_updated = NoTime
                  \/ now - state.last_updated[1] >= REFRESH_INTERVAL_SECONDS)
        /\ ~ret'.started => threads' = threads

\* C7: a trigger that is not forced starts a thread exactly when the source is not in
\* progress and last_updated is absent, unparsable or at least the window old; a
\* forced one exactly when the source is not in progress; a call that returns False
\* starts nothing.
C7_FreshnessGate ==
    /\ [][C7_Decided]_vars
    /\ [](should_refresh(Unparsable, now))

C7_Witness ==
    /\ ret.called /\ ~ret.force /\ ret.started
    /\ site_states[ret.source_id].last_updated # NoTime
    /\ now - site_states[ret.source_id].last_updated[1] = REFRESH_INTERVAL_SECONDS

\* no two rows of a list have the same identity
unique_keys(rows) ==
    \A i \in 1..Len(rows), j \in 1..Len(rows) :
        row_key(rows[i]) = row_key(rows[j]) => i = j

\* C8: after a refresh succeeded, the comment list of the source and every table
\* written for it hold at most one row per identity.
C8_OneRowPerIdentity ==
    \A t \in Tids :
        (threads[t].pc \in {"publish", "finally"} /\ threads[t].error = None)
        => LET s == threads[t].source_id IN
           /\ \A c \in Copies : unique_keys(files[s][c])
           /\ threads[t].pc = "finally" => unique_keys(site_states[s].comments)

C8_Witness ==
    \E t \in Tids :
        /\ threads[t].pc = "finally" /\ threads[t].error = None
        /\ site_states[threads[t].source_id].comments = threads[t].rows
        /\ \E i \in 1..Len(threads[t].rows), j \in 1..Len(threads[t].before.comments) :
              /\ row_key(threads[t].rows[i]) = row_key(threads[t].before.comments[j])
              /\ threads[t].rows[i].timestamp # threads[t].before.comments[j].timestamp
              /\ threads[t].rows[i].text # threads[t].before.comments[j].text

\* C14: a refresh is never aborted by the failure of one page fetch
C14_PageFailureSkipped ==
    \A t \in Tids : threads[t].error # "HTTPError"

\* the text passes the junk filter and the author is "Unknown" or not a placeholder
kept_row(row) ==
    /\ row.text # <<>>
    /\ ~is_junk_or_boilerplate(row.text)
    /\ (row.author = Unknown \/ ~is_placeholder_author(row.author))

kept_rows(rows) == \A i \in 1..Len(rows) : kept_row(rows[i])

C15_Rewritten ==
    \A s \in Sources : \A c \in Copies :
        files'[s][c] # files[s][c] => kept_rows(files'[s][c])

\* C15: every row of every comment list has a text that passes the junk filter and
\* an author that is "Unknown" or not a placeholder, and so has every row of a table
\* that is written
C15_OnlyKeptRows ==
    /\ [](\A s \in Sources : kept_rows(site_states[s].comments))
    /\ [][C15_Rewritten]_vars

\* the tables held a junk row and a placeholder author; a refresh rewrote them and
\* published a list without the first and with the second under "Unknown"
C15_Witness ==
    \E t \in Tids :
        /\ threads[t].pc = "finally" /\ threads[t].error = None
        /\ threads[t].before.tables = JunkTables
        /\ files[threads[t].source_id] # JunkTables
        /\ \E i \in 1..Len(site_states[threads[t].source_id].comments) :
              /\ site_states[threads[t].source_id].comments[i].author = Unknown
              /\ site_states[threads[t].source_id].comments[i].text = <<"b","a","d","!">>

----------------------------------------------------------------------------
(* The locks, step by step                                                 *)

\* Runs in which entering a `with` block, its body, and every call that waits for the
\* network, the disk or the external model are steps of their own.

\* leaving a `with` block without giving the lock back
unlock_never(held, name) == held

\* leaving a `with` block
unlock(held, name) == [held EXCEPT ![name] = Free]

\* the `with` statements: where a thread waits, the lock it takes, where it is then
LockPlan ==
    [seed_wait |-> [lock |-> "state", inside |-> "seed_set"],
     boot_wait |-> [lock |-> "state", inside |-> "trigger"],
     call_wait |-> [lock |-> "state", inside |-> "trigger"],
     payload_wait |-> [lock |-> "state", inside |-> "payload"],
     enter_wait |-> [lock |-> "state", inside |-> "flag"],
     publish_wait |-> [lock |-> "state", inside |-> "publish"],
     except_wait |-> [lock |-> "state", inside |-> "except"],
     finally_wait |-> [lock |-> "state", inside |-> "finally"],
     get_wait |-> [lock |-> "cache", inside |-> "cache_read"],
     put_wait |-> [lock |-> "cache", inside |-> "cache_write"]]

\* threading.Lock.__enter__
lk_acquire(th) ==
    /\ lk[th].pc \in DOMAIN LockPlan
    /\ locks[LockPlan[lk[th].pc].lock] = Free
    /\ locks' = [locks EXCEPT ![LockPlan[lk[th].pc].lock] = th]
    /\ lk' = [lk EXCEPT ![th].pc = LockPlan[lk[th].pc].inside]
    /\ UNCHANGED <<appVars, mA, mB, mOut, mPhase, mApplied, fIn, fOut>>

\* the for loop of normalize_rows at its head: the rows it skips are gone, and the
\* thread is at the cache read of analyze_comment for the next row, or past the loop
RECURSIVE loop_head(_)
loop_head(rec) ==
    IF rec.todo = <<>> THEN [rec EXCEPT !.pc = rec.after]
    ELSE IF row_dropped(fix_mojibake(Head(rec.todo).text))
         THEN loop_head([rec EXCEPT !.todo = Tail(@)])
         ELSE [rec EXCEPT !.pc = "get_wait"]

\* the key analyze_comment looks the text of a row up by
cache_key_of(row) == text_hash(fix_mojibake(fix_mojibake(row.text)))

\* the row normalize_rows appends for a row, analyze_comment having returned result
row_given(row, result) ==
    normalize_rows(<<row>>, [k \in {cache_key_of(row)} |-> result], <<>>).rows

\* the loop of normalize_rows after analyze_comment returned result for its first row
row_done(rec, result) ==
    loop_head([rec EXCEPT !.done = @ \o row_given(Head(rec.todo), result),
                          !.todo = Tail(@),
                          !.cached = NoResult, !.computed = NoResult])

\* ensure_seed_data: the next copy of the tables of a source is read, unless a copy gave
\* rows or none is left
lk_seed_load(th) ==
    /\ lk[th].pc = "seed_load"
    /\ lk' = [lk EXCEPT ![th] =
                 IF lk[th].done # <<>> \/ lk[th].copies = <<>>
                 THEN [@ EXCEPT !.pc = "seed_wait"]
                 ELSE loop_head([@ EXCEPT
                          !.todo = load_rows_from_csv(
                                       files[Head(lk[th].queue)][Head(lk[th].copies)]),
                          !.copies = Tail(@), !.after = "seed_load"])]
    /\ UNCHANGED <<appVars, mA, mB, mOut, mPhase, mApplied, fIn, fOut, locks>>

\* ensure_seed_data: the `with` block, and on to the next source or to the start-up loop
lk_seed_set(th) ==
    LET s == Head(lk[th].queue) IN
    /\ lk[th].pc = "seed_set"
    /\ site_states' = [site_states EXCEPT
                          ![s].comments = lk[th].done,
                          ![s].last_updated = IF lk[th].done # <<>> THEN <<now>> ELSE NoTime]
    /\ locks' = unlock(locks, "state")
    /\ lk' = [lk EXCEPT ![th] =
                 IF Tail(lk[th].queue) # <<>>
                 THEN [@ EXCEPT !.pc = "seed_load", !.queue = Tail(@),
                                !.copies = SeedOrder, !.done = <<>>]
                 ELSE [@ EXCEPT !.pc = "boot_wait", !.queue = <<>>, !.done = <<>>]]
    /\ boot' = IF Tail(lk[th].queue) # <<>> THEN boot ELSE Tail(boot)
    /\ UNCHANGED <<world, pub, threads, files, cache, now, ret, snap, req,
                   mA, mB, mOut, mPhase, mApplied, fIn, fOut>>

\* the refresh threads that were not started yet
LkUnused == { r \in Refreshers : lk[r].pc = "unborn" }

\* trigger_refresh_if_needed inside its `with` block: forced by the start-up loop for
\* the next source, not forced by the handler of GET /api/live-comments
lk_trigger(th) ==
    LET s == IF th = MAIN THEN Head(boot) ELSE lk[th].source_id
        started == trigger_starts(site_states[s], th = MAIN, now)
        r == CHOOSE r \in LkUnused : \A o \in LkUnused : r <= o
    IN
    /\ lk[th].pc = "trigger"
    /\ started => LkUnused # {}
    /\ locks' = unlock(locks, "state")
    /\ lk' = [th2 \in LockThreads |->
                 IF th2 = th
                 THEN [lk[th] EXCEPT !.pc = IF th # MAIN THEN "payload_wait"
                                            ELSE IF Tail(boot) # <<>> THEN "boot_wait"
                                            ELSE "done"]
                 ELSE IF started /\ th2 = r
                 THEN [LkUnborn EXCEPT !.pc = "enter_wait", !.source_id = s]
                 ELSE lk[th2]]
    /\ boot' = IF th = MAIN THEN Tail(boot) ELSE boot
    /\ UNCHANGED <<world, site_states, pub, threads, files, cache, now, ret, snap, req,
                   mA, mB, mOut, mPhase, mApplied, fIn, fOut>>

\* a GET /api/live-comments request comes in, once app.run() serves
lk_call(th) ==
    /\ th = HANDLER /\ lk[th].pc = "idle" /\ boot = <<>>
    /\ \E s \in Sources : lk' = [lk EXCEPT ![th].pc = "call_wait", ![th].source_id = s]
    /\ UNCHANGED <<appVars, mA, mB, mOut, mPhase, mApplied, fIn, fOut, locks>>

\* state_payload inside its `with` block
lk_payload(th) ==
    /\ lk[th].pc = "payload"
    /\ snap' = [payload |-> state_payload(lk[th].source_id), pub |-> pub[lk[th].source_id]]
    /\ locks' = unlock(locks, "state")
    /\ lk' = [lk EXCEPT ![th].pc = "idle"]
    /\ UNCHANGED <<world, boot, site_states, pub, threads, files, cache, now, ret, req,
                   mA, mB, mOut, mPhase, mApplied, fIn, fOut>>

\* refresh_site_state, first `with` block
lk_flag(th) ==
    LET s == lk[th].source_id IN
    /\ lk[th].pc = "flag"
    /\ IF may_enter(site_states[s])
       THEN /\ site_states' = [site_states EXCEPT ![s].in_progress = TRUE,
                                                  ![s].last_error = None]
            /\ lk' = [lk EXCEPT ![th].pc = "fetch"]
       ELSE /\ lk' = [lk EXCEPT ![th].pc = "done"]
            /\ UNCHANGED site_states
    /\ locks' = unlock(locks, "state")
    /\ UNCHANGED <<world, boot, pub, threads, files, cache, now, ret, snap, req,
                   mA, mB, mOut, mPhase, mApplied, fIn, fOut>>

\* scrape_and_analyze_source: the scrape, and on to normalize_rows(scraped_rows)
lk_fetch(th) ==
    /\ lk[th].pc = "fetch"
    /\ \E got \in Scrapes(world.sites[lk[th].source_id]) :
          lk' = [lk EXCEPT ![th] =
                    IF got.error # None
                    THEN [@ EXCEPT !.pc = "except_wait", !.error = got.error]
                    ELSE loop_head([@ EXCEPT !.todo = got.rows, !.done = <<>>,
                                             !.after = "load"])]
    /\ UNCHANGED <<appVars, mA, mB, mOut, mPhase, mApplied, fIn, fOut, locks>>

\* a cache test that never finds anything
cache_hit_never(cached) == FALSE

\* `if cached:`
cache_hit(cached) == cached # NoResult

\* _analysis_cache.get(cache_key)
cache_get(memo, cache_key) == IF cache_key \in DOMAIN memo THEN memo[cache_key] ELSE NoResult

\* analyze_comment, first `with` block, and the return of what the cache holds
lk_cache_get(th) ==
    LET cached == cache_get(cache, cache_key_of(Head(lk[th].todo))) IN
    /\ lk[th].pc = "cache_read"
    /\ locks' = unlock(locks, "cache")
    /\ lk' = [lk EXCEPT ![th] = IF cache_hit(cached) THEN row_done(@, cached)
                                ELSE [@ EXCEPT !.pc = "classify", !.cached = cached]]
    /\ UNCHANGED <<appVars, mA, mB, mOut, mPhase, mApplied, fIn, fOut>>

\* analyze_comment between its `with` blocks: the heuristic, the language detector and
\* the call of the external model
lk_classify(th) ==
    /\ lk[th].pc = "classify"
    /\ \E answer \in (IF world.answers = "local" THEN LocalAnswers ELSE OracleAnswers) :
          lk' = [lk EXCEPT ![th].pc = "put_wait",
                           ![th].computed =
                               analyze_comment(fix_mojibake(Head(lk[th].todo).text), <<>>,
                                               answer.detected, answer.response).result]
    /\ UNCHANGED <<appVars, mA, mB, mOut, mPhase, mApplied, fIn, fOut, locks>>

\* analyze_comment, second `with` block, and the return of the result
lk_cache_put(th) ==
    LET cache_key == cache_key_of(Head(lk[th].todo)) IN
    /\ lk[th].pc = "cache_write"
    /\ cache' = [k \in DOMAIN cache \cup {cache_key} |->
                    IF k = cache_key THEN lk[th].computed ELSE cache[k]]
    /\ locks' = unlock(locks, "cache")
    /\ lk' = [lk EXCEPT ![th] = row_done(@, lk[th].computed)]
    /\ UNCHANGED <<world, boot, site_states, pub, threads, files, now, ret, snap, req,
                   mA, mB, mOut, mPhase, mApplied, fIn, fOut>>

\* scrape_and_analyze_source: analyzed_rows is tested, the working copy is read, and on
\* to normalize_rows of its rows
lk_load(th) ==
    /\ lk[th].pc = "load"
    /\ lk' = [lk EXCEPT ![th] =
                 IF lk[th].done = <<>>
                 THEN [@ EXCEPT !.pc = "except_wait",
                                !.error = "No valid comments after analysis."]
                 ELSE loop_head([@ EXCEPT
                          !.analyzed = lk[th].done, !.done = <<>>,
                          !.todo = load_rows_from_csv(files[lk[th].source_id]["csv"]),
                          !.after = "save"])]
    /\ UNCHANGED <<appVars, mA, mB, mOut, mPhase, mApplied, fIn, fOut, locks>>

\* scrape_and_analyze_source: the merge and the four save_rows_to_csv
lk_save(th) ==
    LET merged_rows == merge_with_existing(lk[th].analyzed, lk[th].done) IN
    /\ lk[th].pc = "save"
    /\ files' = [files EXCEPT ![lk[th].source_id] =
                                  [c \in Copies |-> save_rows_to_csv(merged_rows)]]
    /\ lk' = [lk EXCEPT ![th].pc = "publish_wait", ![th].done = merged_rows,
                        ![th].analyzed = <<>>]
    /\ UNCHANGED <<world, boot, site_states, pub, threads, cache, now, ret, snap, req,
                   mA, mB, mOut, mPhase, mApplied, fIn, fOut, locks>>

\* refresh_site_state, the `with` block of the try branch
lk_publish(th) ==
    /\ lk[th].pc = "publish"
    /\ site_states' = [site_states EXCEPT
                          ![lk[th].source_id] = published(@, lk[th].done, now)]
    /\ locks' = unlock(locks, "state")
    /\ lk' = [lk EXCEPT ![th].pc = "finally_wait"]
    /\ UNCHANGED <<world, boot, pub, threads, files, cache, now, ret, snap, req,
                   mA, mB, mOut, mPhase, mApplied, fIn, fOut>>

\* refresh_site_state, the `with` block of the except branch
lk_except(th) ==
    /\ lk[th].pc = "except"
    /\ site_states' = [site_states EXCEPT
                          ![lk[th].source_id] = failed(@, lk[th].error)]
    /\ locks' = unlock(locks, "state")
    /\ lk' = [lk EXCEPT ![th].pc = "finally_wait"]
    /\ UNCHANGED <<world, boot, pub, threads, files, cache, now, ret, snap, req,
                   mA, mB, mOut, mPhase, mApplied, fIn, fOut>>

\* refresh_site_state, the `with` block of the finally branch
lk_finally(th) ==
    /\ lk[th].pc = "finally"
    /\ site_states' = [site_states EXCEPT ![lk[th].source_id] = released(@)]
    /\ locks' = unlock(locks, "state")
    /\ lk' = [lk EXCEPT ![th] = [LkUnborn EXCEPT !.pc = "done",
                                                 !.source_id = lk[th].source_id]]
    /\ UNCHANGED <<world, boot, pub, threads, files, cache, now, ret, snap, req,
                   mA, mB, mOut, mPhase, mApplied, fIn, fOut>>

\* runs followed lock by lock: both sources show the same page, the external model
\* answers or fails, and the first source may have tables
LockInit ==
    /\ world = [sites |-> [s \in Sources |-> "few"], answers |-> "oracle",
                threads |-> 0, horizon |-> 0]
    /\ files \in { f \in [Sources -> {NoTables, BobTables}] : f[SITE_CONFIG[2]] = NoTables }
    /\ Started
    /\ mA = <<>> /\ mB = <<>> /\ mOut = <<>> /\ mPhase = "idle" /\ mApplied = 0
    /\ fIn = NoInput /\ fOut = NoOutput
    /\ locks = [state |-> Free, cache |-> Free]
    /\ lk = [th \in LockThreads |->
                IF th = MAIN
                THEN [LkUnborn EXCEPT !.pc = "seed_load", !.queue = SITE_CONFIG,
                                      !.copies = SeedOrder]
                ELSE IF th = HANDLER THEN [LkUnborn EXCEPT !.pc = "idle"]
                ELSE LkUnborn]

LockNext ==
    \E th \in LockThreads :
        \/ lk_acquire(th)
        \/ lk_seed_load(th) \/ lk_seed_set(th)
        \/ lk_trigger(th) \/ lk_call(th) \/ lk_payload(th)
        \/ lk_flag(th) \/ lk_fetch(th)
        \/ lk_cache_get(th) \/ lk_classify(th) \/ lk_cache_put(th)
        \/ lk_load(th) \/ lk_save(th)
        \/ lk_publish(th) \/ lk_except(th) \/ lk_finally(th)

LockSpec == LockInit /\ [][LockNext]_vars

-----------------------------------------------------------------------------
(* The helpers on their own                                                *)

\* the process at rest while a helper is applied on its own
FnRest ==
    /\ world = [sites |-> [s \in Sources |-> "few"], answers |-> "local",
                threads |-> 0, horizon |-> 0]
    /\ files = [s \in Sources |-> NoTables]
    /\ Started
    /\ mA = <<>> /\ mB = <<>> /\ mOut = <<>> /\ mPhase = "idle" /\ mApplied = 0
    /\ LockIdle

\* authors and texts that differ in case, in spacing and in where a '|' stands
KeyStrings ==
    { <<"a">>, <<" ","A"," "," ">>, <<"a","|","b">>, <<"b","|","c">>, <<"c">>,
      <<"a"," "," ","b">>, <<"A"," ","b"," ">>, <<>> }

KeyInputs ==
    { [fn |-> "key", author |-> a, text |-> t, other_author |-> b, other_text |-> u] :
          a \in KeyStrings, t \in KeyStrings, b \in KeyStrings, u \in KeyStrings }

\* make_comment_key(author, text) and make_comment_key(other_author, other_text)
key_call ==
    /\ fIn.fn = "key" /\ fOut = NoOutput
    /\ fOut' = [fn |-> "key", key |-> make_comment_key(fIn.author, fIn.text),
                other_key |-> make_comment_key(fIn.other_author, fIn.other_text)]
    /\ UNCHANGED <<appVars, mA, mB, mOut, mPhase, mApplied, fIn, locks, lk>>

\* words joined by single spaces
RECURSIVE join_words(_)
join_words(words) ==
    IF words = <<>> THEN <<>>
    ELSE IF Len(words) = 1 THEN Head(words)
    ELSE Head(words) \o <<" ">> \o join_words(Tail(words))

AT_ALL == << <<"a","t">>, <<"a","l","l">> >>

\* a negator before a word of either list, alone or with words that carry no sentiment
NegatedTexts ==
    { join_words(<<n, w>> \o rest) :
          n \in NEGATORS, w \in NEGATED_GOOD \cup NEGATED_BAD, rest \in { <<>>, AT_ALL } }

\* texts of three characters and less, texts without letters, plain texts
OtherTexts ==
    { <<"b","a","d">>, <<"o","k","!">>, <<"<1F44D>","<1F44D>">>, <<"<1F44E>">>,
      <<"1","2","3","4">>, <<"?","?","?","?">>, <<"<0915>","<0915>","<0915>","<0915>">>,
      <<"g","o","o","d"," ","w","o","r","k">>, <<"b","a","d"," ","b","u","g">>,
      <<"g","o","o","d"," ","b","a","d">>, <<"f","i","n","e"," ","<1F44D>">>,
      <<"f","i","n","e"," ","<1F44E>">>, <<"a"," ","d","a","y">>,
      join_words(<<GOOD, GOOD, GOOD, GOOD, GOOD, GOOD, GOOD>>),
      <<" ","B","A","D"," "," ","d","a","y"," ">> }

HeurInputs == { [fn |-> "heur", text |-> x] : x \in NegatedTexts \cup OtherTexts }

\* heuristic_sentiment(text)
heur_call ==
    /\ fIn.fn = "heur" /\ fOut = NoOutput
    /\ fOut' = [fn |-> "heur", result |-> heuristic_sentiment(fIn.text)]
    /\ UNCHANGED <<appVars, mA, mB, mOut, mPhase, mApplied, fIn, locks, lk>>

\* a body that was mis-decoded three times, before two plain letters
ArtThrice == [body |-> <<"<C3>","<83>","<C2>","<83>","<C3>","<82>","<C2>","<A9>","a","b">>,
              author |-> <<"A","l">>, timestamp |-> <<"1","d">>]
SiteThrice == [root |-> "ok", ajax |-> [k \in {<<0>>} |-> Page(<<ArtThrice>>)]]

\* the detector knows the language; the external model answers or is unavailable
RoundAnswers ==
    { [detected |-> <<"e","n">>, response |-> GeminiAnswer],
      [detected |-> <<"e","n">>, response |-> GeminiUnavailable] }

\* a refresh of a site into empty tables, then a load of what it wrote: by the next
\* refresh of the same process, or by a process that starts afresh
RoundInputs ==
    { [fn |-> "round", site |-> site, first |-> a, restart |-> r, second |-> b] :
          site \in {SiteOne, SiteTwo, SiteThrice}, a \in RoundAnswers, r \in BOOLEAN,
          b \in RoundAnswers }

\* the oracle that gives one answer for every text
all_answer(texts, answer) == [x \in texts |-> answer]

\* save_rows_to_csv of a refresh's rows, then load_rows_from_csv and normalize_rows
round_call ==
    /\ fIn.fn = "round" /\ fOut = NoOutput
    /\ fOut' =
          With(scraped(fIn.site), LAMBDA got :
          With(scrape_and_analyze_source(got, NoTables, <<>>,
                                         all_answer(texts_of(got.rows), fIn.first)),
               LAMBDA done :
          With(load_rows_from_csv(done.tables["csv"]), LAMBDA loaded :
             [fn |-> "round", corpus |-> done.rows,
              reloaded |-> normalize_rows(loaded,
                                          IF fIn.restart THEN <<>> ELSE done.memo,
                                          all_answer(texts_of(loaded), fIn.second)).rows])))
    /\ UNCHANGED <<appVars, mA, mB, mOut, mPhase, mApplied, fIn, locks, lk>>

\* the longest run of pages a site is laid out with, the endless site apart
MaxLayout == 5

Digits == <<"0","1","2","3","4","5","6","7","8","9">>

\* the one comment of page n, unlike that of every other page
ArtPage(n) ==
    [body |-> <<"p","a","g","e"," ", Digits[(n \div 10) + 1], Digits[(n % 10) + 1]>>,
     author |-> BOB, timestamp |-> NoElement]

\* what a page index answers: a comment of its own, nothing, or the comment of page 0 again
PageKinds == {"new", "empty", "seen"}

Layouts ==
    UNION { [1..n -> PageKinds] : n \in 0..MaxLayout }
        \cup { [i \in 1..(MAX_PAGES_PER_SCRAPE + 2) |-> "new"] }

\* the kind of page index i; past the layout every page is empty
kind_at(layout, i) == IF i + 1 <= Len(layout) THEN layout[i + 1] ELSE "empty"

\* the token a page answers to: the first or the second one tried for its index
token_of(i, via) == IF i = 0 THEN <<0>> ELSE IF via = "first" THEN <<0, i>> ELSE <<i>>

\* the site a layout stands for
site_of(layout, via) ==
    [root |-> "ok",
     ajax |-> [k \in { token_of(i, via) : i \in { j \in 0..(Len(layout) - 1) :
                                                      layout[j + 1] # "empty" } } |->
                  Page(<<ArtPage(IF kind_at(layout, k[Len(k)]) = "new" THEN k[Len(k)] ELSE 0)>>)]]

PagesInputs ==
    { [fn |-> "pages", layout |-> l, via |-> v] : l \in Layouts, v \in {"first", "second"} }

\* the loop of scrape_comments_paginated over the pages of a site
pages_call ==
    /\ fIn.fn = "pages" /\ fOut = NoOutput
    /\ fOut' = [fn |-> "pages", got |-> paginate(site_of(fIn.layout, fIn.via), 0, <<>>, {}, 0)]
    /\ UNCHANGED <<appVars, mA, mB, mOut, mPhase, mApplied, fIn, locks, lk>>

\* the longest text handed to short_summary
MaxSummaryText == 330

\* n words of w letters, gap spaces between two words and lead spaces before the first
words_text(w, n, gap, lead) ==
    [i \in 1..(lead + n * w + (n - 1) * gap) |->
        IF i <= lead \/ ((i - lead - 1) % (w + gap)) >= w THEN " " ELSE "x"]

SummaryInputs ==
    { [fn |-> "summary", text |-> words_text(p[1], p[2], p[3], p[4])] :
        p \in { q \in {3, 10, 54, 72, 108, 109, 110, 215, 216, 217, 218, 219, 220, 221, 300}
                       \X {1, 2, 3, 4, 20, 21, 22, 55, 56, 80} \X {1, 2} \X {0, 1} :
                    q[4] + q[2] * q[1] + (q[2] - 1) * q[3] <= MaxSummaryText } }

\* short_summary(text), and short_summary of what it returns
summary_call ==
    /\ fIn.fn = "summary" /\ fOut = NoOutput
    /\ fOut' = [fn |-> "summary", out |-> short_summary(fIn.text),
                again |-> short_summary(short_summary(fIn.text))]
    /\ UNCHANGED <<appVars, mA, mB, mOut, mPhase, mApplied, fIn, locks, lk>>

\* texts to analyse: nothing, one the heuristic calls positive, one it cannot judge
AnalyzeTexts ==
    { <<>>, <<"v","e","r","y"," ","g","o","o","d"," ","w","o","r","k">>, <<"b","a","d">> }

\* a complete answer of the external model
AnalyzeObjects ==
    [sentiment : { <<"N","E","G","A","T","I","V","E">>, <<"p","o","s">>,
                   <<"M","o","s","t","l","y"," ","N","e","u","t","r","a","l">>,
                   <<"U","N","K","N","O","W","N">>, <<"m","i","x","e","d">>, <<>> },
     score : { 87654, 150000, -5 },
     language : { <<"h","i">>, <<"t","a","m","i","l">> },
     summary : { <<"f","i","n","e">>, words_text(4, 46, 1, 0) }]

\* the keys an answer can hold
AnalyzeKeys ==
    { {"sentiment", "score", "language", "summary"}, {"sentiment", "language", "summary"},
      {"sentiment", "score", "summary"}, {"sentiment", "score", "language"},
      {"sentiment"}, {"score", "language", "summary"} }

AnalyzeResponses ==
    { GeminiUnavailable, GeminiRaises, GeminiUnparseable }
        \cup { [k \in keys |-> object[k]] : object \in AnalyzeObjects, keys \in AnalyzeKeys }

\* a result an earlier call left in the cache
CachedAnalysis ==
    [sentiment |-> NEUTRAL, sentiment_score |-> 50000,
     lang |-> <<"T","a","m","i","l">>, summary |-> <<"o","l","d">>]

\* the cache is empty, or holds a result for the text
AnalyzeMemos(text) ==
    { <<>>, [k \in {text_hash(fix_mojibake(text))} |-> CachedAnalysis] }

AnalyzeInputs ==
    UNION { { [fn |-> "analyze", text |-> text, memo |-> memo,
               detected |-> detected, response |-> response] :
                 memo \in AnalyzeMemos(text), detected \in DetectAnswers,
                 response \in AnalyzeResponses } : text \in AnalyzeTexts }

\* analyze_comment(text)
analyze_call ==
    /\ fIn.fn = "analyze" /\ fOut = NoOutput
    /\ fOut' = With(analyze_comment(fIn.text, fIn.memo, fIn.detected, fIn.response),
                    LAMBDA got : [fn |-> "analyze", result |-> got.result, memo |-> got.memo])
    /\ UNCHANGED <<appVars, mA, mB, mOut, mPhase, mApplied, fIn, locks, lk>>

\* an article container without a comment body
ArtNoBody == [body |-> NoElement, author |-> BOB, timestamp |-> <<"1","d">>]

\* a comment body outside any article container, after a span.username or after none
BareGood == [body |-> <<"f","i","n","e"," ","p","l","a","n">>, author |-> BOB]
BareAnon == [body |-> <<"b","a","d"," ","p","l","a","n">>, author |-> NoElement]
BareJunk == [body |-> <<"o","k">>, author |-> BOB]

MaxNodes == 2

\* the sequences of at most MaxNodes elements of a set
SeqsUpTo(S) == UNION { [1..n -> S] : n \in 0..MaxNodes }

\* fragments of article containers, with and without body, junk or not, and bare bodies
ExtractInputs ==
    { [fn |-> "extract", fragment |-> [articles |-> articles, bare |-> bare]] :
        articles \in SeqsUpTo({Art1, Art3, ArtJunk, ArtNoBody}),
        bare \in SeqsUpTo({BareGood, BareAnon, BareJunk}) }

\* extract_comments_from_html(fragment_html)
extract_call ==
    /\ fIn.fn = "extract" /\ fOut = NoOutput
    /\ fOut' = [fn |-> "extract", rows |-> extract_comments_from_html(fIn.fragment)]
    /\ UNCHANGED <<appVars, mA, mB, mOut, mPhase, mApplied, fIn, locks, lk>>

FnInputs ==
    KeyInputs \cup HeurInputs \cup RoundInputs \cup PagesInputs \cup SummaryInputs
        \cup AnalyzeInputs \cup ExtractInputs

FnInit == FnRest /\ fIn \in FnInputs /\ fOut = NoOutput

FnNext ==
    \/ key_call \/ heur_call \/ round_call \/ pages_call \/ summary_call
    \/ analyze_call \/ extract_call

FnSpec == FnInit /\ [][FnNext]_vars

\* C11: two (author, text) pairs have the same key exactly when their normalized,
\* lower-cased authors are equal and their normalized, lower-cased texts are equal
C11_KeyIffSamePair ==
    fOut.fn = "key" =>
        ((fOut.key = fOut.other_key)
            <=> (/\ lower(normalize_whitespace(fIn.author))
                       = lower(normalize_whitespace(fIn.other_author))
                 /\ lower(normalize_whitespace(fIn.text))
                       = lower(normalize_whitespace(fIn.other_text))))

\* the first two words are a negator and a word of the list, no other word carries sentiment
negated(text, list) ==
    LET words == word_tokens(lower(normalize_whitespace(text))) IN
    /\ Len(words) >= 2
    /\ words[1] \in NEGATORS /\ words[2] \in list
    /\ \A i \in 3..Len(words) : words[i] \notin POSITIVE_WORDS \cup NEGATIVE_WORDS

\* C16: a negator directly before bad/poor/waste/worst makes the text positive, a
\* negator directly before good/great/excellent/super/nice makes it negative
C16_NegationFlips ==
    fOut.fn = "heur" =>
        /\ negated(fIn.text, NEGATED_BAD) => fOut.result.sentiment = POSITIVE
        /\ negated(fIn.text, NEGATED_GOOD) => fOut.result.sentiment = NEGATIVE

\* C17: for a non-empty text of any length the label follows from delta and the
\* presence of letters alone, and the score from the label and delta
C17_LabelFromDelta ==
    fOut.fn = "heur" /\ normalize_whitespace(fIn.text) # <<>> =>
        LET lowered == lower(normalize_whitespace(fIn.text))
            delta == sentiment_delta(lowered)
            letters == \E i \in 1..Len(lowered) :
                           \/ IsAsciiLetter(lowered[i])
                           \/ (high_code(lowered[i]) >= 2304 /\ high_code(lowered[i]) <= 3455)
            \* delta counts halves: above 0.35 is one half or more
            label == IF delta >= 1 THEN POSITIVE
                     ELSE IF delta <= -1 THEN NEGATIVE
                     ELSE IF letters THEN NEUTRAL ELSE UNKNOWN
        IN /\ fOut.result.sentiment = label
           /\ fOut.result.sentiment_score =
                 (CASE label \in {POSITIVE, NEGATIVE} ->
                           Min(99000, 55000 + Min(Abs(delta), 10) * 4000)
                    [] label = NEUTRAL -> 50000
                    [] OTHER -> 0)
           /\ fOut.result.sentiment_score >= 0 /\ fOut.result.sentiment_score <= 100000

\* the identity and the field values of the rows, the score to four decimal places
field_values(rows) ==
    { [key |-> row_key(rows[i]), author |-> rows[i].author,
       timestamp |-> rows[i].timestamp, text |-> rows[i].text, lang |-> rows[i].lang,
       sentiment |-> rows[i].sentiment, summary |-> rows[i].summary,
       sentiment_score |-> format_score(rows[i].sentiment_score)] : i \in 1..Len(rows) }

\* C12: a corpus produced by a refresh, saved and loaded again, has the same identities
\* and the same field values, the score to four decimal places
C12_RoundTrip ==
    fOut.fn = "round" => field_values(fOut.reloaded) = field_values(fOut.corpus)

\* the rows the comments of the pages 0..k-1 come to, in the order of the pages
RECURSIVE rows_of_pages(_)
rows_of_pages(k) ==
    IF k = 0 THEN <<>>
    ELSE rows_of_pages(k - 1) \o extract_comments_from_html(Page(<<ArtPage(k - 1)>>))

\* the pages 0..k-1 have new rows, the pages k and k+1 have none
new_then_empty(layout, k) ==
    /\ \A i \in 0..(k - 1) : kind_at(layout, i) = "new"
    /\ kind_at(layout, k) = "empty" /\ kind_at(layout, k + 1) = "empty"

\* C13: after k >= 1 pages of new rows and two pages without rows the scrape returns
\* the rows of the k pages and has asked for no index from k+2 on; it never asks for
\* an index from MAX_PAGES_PER_SCRAPE on
C13_PaginationStops ==
    fOut.fn = "pages" =>
        /\ \A k \in 1..Len(fIn.layout) :
              new_then_empty(fIn.layout, k) /\ MAX_PAGES_PER_SCRAPE > k + 2 =>
                  /\ fOut.got.error = None
                  /\ fOut.got.rows = rows_of_pages(k)
                  /\ \A j \in 1..Len(fOut.got.asked) : fOut.got.asked[j] < k + 2
        /\ \A j \in 1..Len(fOut.got.asked) : fOut.got.asked[j] < MAX_PAGES_PER_SCRAPE

\* three pages of new rows, two pages without: five indices asked for, three rows
C13_Witness ==
    /\ fOut.fn = "pages"
    /\ new_then_empty(fIn.layout, 3)
    /\ fOut.got.asked = <<0, 1, 2, 3, 4>>
    /\ Len(fOut.got.rows) = 3

\* C20: one page without new rows, empty or holding only rows seen before, does not
\* end the scrape: the new rows of the page after it are collected
C20_OneStalePageGoesOn ==
    fOut.fn = "pages" =>
        \A j \in 1..Len(fIn.layout) :
            /\ \A i \in 0..(j - 1) : kind_at(fIn.layout, i) = "new"
            /\ kind_at(fIn.layout, j) \in {"empty", "seen"}
            /\ kind_at(fIn.layout, j + 1) = "new"
            => \E n \in 1..Len(fOut.got.rows) :
                   <<fOut.got.rows[n]>> = extract_comments_from_html(Page(<<ArtPage(j + 1)>>))

\* the length of the prefix a long text keeps: up to the last space among its first
\* 217 characters, or all 217 of them when there is no space
kept_prefix(cleaned) ==
    LET spaces == { i \in 1..217 : cleaned[i] = " " } IN
    IF spaces = {} THEN 217
    ELSE (CHOOSE i \in spaces : \A j \in spaces : j <= i) - 1

\* C18: a text of at most 220 characters is returned whitespace-normalized and
\* otherwise unchanged; a longer one gives at most 220 characters, its prefix up to
\* the last space among the first 217 characters and "..."; a summary is its own summary
C18_SummaryBounded ==
    fOut.fn = "summary" =>
        LET cleaned == normalize_whitespace(fIn.text) IN
        /\ Len(cleaned) <= 220 => fOut.out = cleaned
        /\ Len(cleaned) > 220 =>
              /\ Len(fOut.out) <= 220
              /\ fOut.out = SubSeq(cleaned, 1, kept_prefix(cleaned)) \o <<".", ".", ".">>
        /\ fOut.again = fOut.out

\* a text longer than 220 characters that was cut back to a space
C18_Witness ==
    /\ fOut.fn = "summary"
    /\ Len(normalize_whitespace(fIn.text)) > 220
    /\ Len(fOut.out) < 220
    /\ SubSeq(fOut.out, Len(fOut.out) - 2, Len(fOut.out)) = <<".", ".", ".">>
    /\ normalize_whitespace(fIn.text)[Len(fOut.out) - 2] = " "

\* the external model answered with an object whose label is positive, negative or neutral
usable(response) ==
    /\ "unavailable" \notin DOMAIN response
    /\ "sentiment" \in DOMAIN response
    /\ normalize_sentiment(response.sentiment) \in {POSITIVE, NEGATIVE, NEUTRAL}

\* the four fields as the external answer gives them
external_fields(cleaned, response) ==
    LET label == normalize_sentiment(response.sentiment)
        score == IF "score" \in DOMAIN response THEN response.score
                 ELSE DEFAULT_SENTIMENT_SCORE(label)
    IN [sentiment |-> label,
        sentiment_score |-> IF score < 0 THEN 0 ELSE IF score > 100000 THEN 100000 ELSE score,
        lang |-> normalize_language_name(IF "language" \in DOMAIN response
                                         THEN response.language ELSE Unknown),
        summary |-> short_summary(IF "summary" \in DOMAIN response
                                  THEN response.summary ELSE cleaned)]

\* the four fields as the heuristic and the language detector give them
local_fields(cleaned, detected) ==
    [sentiment |-> heuristic_sentiment(cleaned).sentiment,
     sentiment_score |-> heuristic_sentiment(cleaned).sentiment_score,
     lang |-> detect_language_name(cleaned, detected),
     summary |-> short_summary(cleaned)]

\* the text is not empty and the cache holds nothing for it
analysed_afresh ==
    /\ fix_mojibake(fIn.text) # <<>>
    /\ text_hash(fix_mojibake(fIn.text)) \notin DOMAIN fIn.memo

\* C19: analyze_comment always returns the four fields; for a text it analyses afresh
\* they are all the external model's when its answer has a label that normalizes to
\* positive, negative or neutral, and all the heuristic's and the detector's when the
\* model is disabled, raises, answers unparseably or with a label that normalizes to
\* unknown; otherwise they are the cached record or the local result for no text
C19_AllOrNothing ==
    fOut.fn = "analyze" =>
        /\ DOMAIN fOut.result = {"sentiment", "sentiment_score", "lang", "summary"}
        /\ analysed_afresh /\ usable(fIn.response)
              => fOut.result = external_fields(fix_mojibake(fIn.text), fIn.response)
        /\ analysed_afresh /\ ~usable(fIn.response)
              => fOut.result = local_fields(fix_mojibake(fIn.text), fIn.detected)
        /\ fix_mojibake(fIn.text) = <<>>
              => fOut.result = local_fields(<<>>, fIn.detected)
        /\ ~analysed_afresh /\ fix_mojibake(fIn.text) # <<>>
              => fOut.result = fIn.memo[text_hash(fix_mojibake(fIn.text))]

\* the external result was taken where every one of its fields differs from the local one
C19_Witness ==
    /\ fOut.fn = "analyze"
    /\ analysed_afresh /\ usable(fIn.response)
    /\ fOut.result = external_fields(fix_mojibake(fIn.text), fIn.response)
    /\ \A k \in DOMAIN fOut.result :
          fOut.result[k] # local_fields(fix_mojibake(fIn.text), fIn.detected)[k]

\* the local result was taken although the external model answered, with a label that
\* normalizes to unknown
C19_FallbackWitness ==
    /\ fOut.fn = "analyze"
    /\ analysed_afresh
    /\ "sentiment" \in DOMAIN fIn.response
    /\ normalize_sentiment(fIn.response.sentiment) = UNKNOWN
    /\ fOut.result = local_fields(fix_mojibake(fIn.text), fIn.detected)
    /\ fOut.result.sentiment = POSITIVE

\* C22: a fragment with at least one article container yields only the records of
\* its article containers, none when every container is skipped
C22_FallbackOnlyWithoutArticles ==
    fOut.fn = "extract" /\ fIn.fragment.articles # <<>>
        => fOut.rows = extract_articles(fIn.fragment.articles)

\* a step that changes the comment list of a source keeps every identity of the
\* list, in the new list and in every persisted copy
C23_Kept ==
    \A s \in Sources :
        site_states'[s].comments # site_states[s].comments
            => /\ keys_of(site_states[s].comments) \subseteq keys_of(site_states'[s].comments)
               /\ \A c \in Copies :
                     keys_of(site_states[s].comments) \subseteq keys_of(files'[s][c])

\* C23: a successful refresh never removes a comment: every identity in the list of a
\* source before the refresh, seeded from any copy or left by an earlier refresh, is in
\* the list and in the rewritten copies after it
C23_RefreshKeepsComments == [][C23_Kept]_vars

\* where a thread waits for the network, the disk or the external model
SlowPcs == {"seed_load", "fetch", "classify", "load", "save"}

\* C21: a thread that holds the state lock is not in a network fetch, a disk read or
\* write or a call of the external model; a thread that holds the cache lock is only
\* reading or writing a cache entry; no thread holds both locks
C21_NoLockAcrossSlowCall ==
    \A th \in LockThreads :
        /\ locks.state = th => lk[th].pc \notin SlowPcs
        /\ locks.cache = th => lk[th].pc \in {"cache_read", "cache_write"}
        /\ ~(locks.state = th /\ locks.cache = th)

\* both locks are held, by two threads, while a third thread is in a slow call
C21_Witness ==
    \E a, b, c \in LockThreads :
        /\ locks.state = a /\ locks.cache = b
        /\ lk[c].pc \in SlowPcs

\* no key leaves the cache
cache_grows == \A k \in DOMAIN cache : k \in DOMAIN cache'

\* a call that finds a result in the cache returns it, and computes nothing
hits_return(th) ==
    LET row == Head(lk[th].todo) IN
    (/\ lk[th].pc = "cache_read" /\ lk'[th].pc # "cache_read"
     /\ cache_key_of(row) \in DOMAIN cache)
        => /\ lk'[th].pc # "classify"
           /\ lk'[th].done = lk[th].done \o row_given(row, cache[cache_key_of(row)])

\* C24: the cache only grows and its hits are final: a stored result is never removed
\* and never replaced, and a call that finds it returns it without computing anything
C24_HitsFinal ==
    [][/\ cache_grows
       /\ \A k \in DOMAIN cache : cache'[k] = cache[k]
       /\ \A th \in LockThreads : hits_return(th)]_vars

\* C24, amended: a stored result is never removed, and a call that finds one returns
\* it without computing anything; a stored result is replaced only by the store of a
\* call that found nothing in the cache when it read it
C24_HitsReturnStored ==
    [][/\ cache_grows
       /\ \A th \in LockThreads : hits_return(th)
       /\ \A k \in DOMAIN cache :
             cache'[k] # cache[k]
                 => \E th \in LockThreads :
                       /\ lk[th].pc = "cache_write" /\ locks.cache = th
                       /\ cache_key_of(Head(lk[th].todo)) = k
                       /\ lk[th].cached = NoResult]_vars

\* a call that found nothing when it read the cache is about to replace the result
\* another call stored since by a different one
C24_Witness ==
    \E th \in LockThreads :
        /\ lk[th].pc = "cache_write" /\ locks.cache = th
        /\ lk[th].cached = NoResult
        /\ cache_key_of(Head(lk[th].todo)) \in DOMAIN cache
        /\ cache[cache_key_of(Head(lk[th].todo))] # lk[th].computed

====
